---- MODULE Spec2Model ----
(***************************************************************************)
(* Verification model of the algorithm visualiser: the graph searches      *)
(* (BFSAlgorithm, DFSAlgorithm), the two playback controllers (App.jsx,    *)
(* App_Updated.jsx), the VisualizationEngine step cursor and the array,    *)
(* graph, tree and grid visualization adapters.                            *)
(*                                                                         *)
(* Every subsystem has its own group of variables and its own              *)
(* specification; a specification keeps the other groups at their          *)
(* constructed (idle) value.                                               *)
(***************************************************************************)
EXTENDS Integers, Sequences, FiniteSets, TLC

(***************************************************************************)
(* Bounds of the explored inputs.                                          *)
(***************************************************************************)
NumNodes == 3
MaxEdges == 3
MaxLen == 3
MaxVal == 3
NumVizNodes == 2
MaxVizEdges == 2
GridRows == 1
GridCols == 2
MaxCalls == 2
MaxTreeNodes == 3

MaxBuilds == 3
AStarCols == 3
MaxWalls == 2

\* JavaScript null, for node ids (node ids are 1..NumNodes)
Null == 0

Nodes == 1..NumNodes

VARIABLES
  \* ---- graph search run (BFSAlgorithm.execute / DFSAlgorithm.execute)
  s_algo,       \* "bfs" | "dfs" | "none"
  s_edges,      \* input.graph.edges : sequence of [from, to, directed]
  s_start,      \* input.startNode
  s_end,        \* input.endNode (Null when absent)
  s_visited,    \* visited : Set
  s_frontier,   \* queue (BFS) or stack (DFS) : Array
  s_parent,     \* parent : Map, a function whose domain is the keys set so far
  s_distances,  \* distances : Map (BFS only)
  s_steps,      \* steps : Array of step records
  s_pc          \* "idle" | "loop" | "final" | "done"

VARIABLES
  \* ---- legacy playback controller (App.jsx)
  a_selectedAlgorithm,  \* selectedAlgorithm
  a_inputArray,         \* inputArray
  a_steps,              \* steps
  a_currentStep,        \* currentStep
  a_isPlaying,          \* isPlaying
  a_interval,           \* TRUE while the interval of the auto-play effect is set
  a_lastAction          \* the handler or callback that ran last

VARIABLES
  \* ---- modular playback controller (App_Updated.jsx)
  u_selectedAlgorithm,  \* selectedAlgorithm
  u_input,              \* visualizationInput (array input)
  u_steps,              \* steps held by ModularAlgorithmVisualizer
  u_currentStep,        \* currentStep
  u_totalSteps,         \* totalSteps
  u_isPlaying,          \* isPlaying
  u_animationInterval,  \* animationInterval : interval id or Null
  u_timers,             \* live intervals : set of [id, totalSteps seen by the closure]
  u_lastAction          \* the handler or callback that ran last

VARIABLES
  \* ---- VisualizationEngine with the visualization adapter it drives
  v_type,         \* kind of engine.currentVisualization: "array" | "graph" | "tree" | "grid" | "none"
  v_input,        \* the input the adapter was loaded with
  e_steps,        \* engine.steps
  e_currentStep,  \* engine.currentStep
  v_array,        \* ArrayVisualization: [data, values, states] (bars by index)
  v_graph,        \* GraphVisualization: [nodes, edges, adjacencyList, nodeState, edgeState]
  v_tree,         \* TreeVisualization: [values, states] (nodes in creation order)
  v_grid,         \* GridVisualization: [cells, startCell, endCell]
  v_order,        \* which steps of the log have been applied since loading
  v_calls,        \* number of steps handed to executeStep directly
  v_last          \* the call that ran last

VARIABLES
  \* ---- tree traversal run (TreeTraversalAlgorithm.execute)
  t_type,   \* traversalType
  t_tree,   \* input.tree
  t_steps,  \* steps
  t_pc      \* "idle" | "ready" | "done"

\* the engine's element registry (VisualizationEngine.elements) and the
\* visualization the component holds
VARIABLES
  r_objects,   \* every element constructed so far: [id, from, to], by object number
  r_registry,  \* engine.elements: element id -> object number
  r_viz,       \* visualizationRef.current: [type, elements, edges] (its own Maps)
  r_call,      \* the setData / setGraph / setTree call in progress
  r_builds,    \* number of inputs set so far
  r_last       \* the operation that ran last

\* one run of a sorting function
VARIABLES
  q_impl,       \* "registry" (BFSAlgorithm.js) | "app" (App.jsx)
  q_algorithm,  \* "bubble_sort" | "selection_sort"
  q_arr,        \* the input array
  q_steps,      \* the steps returned
  q_pc          \* "idle" | "ready" | "done"

\* one run of AStarAlgorithm.execute
VARIABLES
  k_grid,       \* input.grid: its rows, its columns, the cells of type wall
  k_start,      \* input.start
  k_end,        \* input.end
  k_heuristic,  \* input.heuristic
  k_openSet,    \* openSet
  k_closedSet,  \* closedSet
  k_gScore,     \* gScore: cell -> <<a, b>>, the number a + b * sqrt(2)
  k_fScore,     \* fScore, likewise
  k_parent,     \* parent
  k_steps,      \* steps
  k_pc          \* "idle" | "loop" | "after" (the loop is left) | "done"

\* the canvas and the layout the adapter has given its elements
VARIABLES
  g_width,   \* engine.width
  g_height,  \* engine.height
  g_layout   \* where the adapter's setupLayout / resize has put the elements

searchVars == <<s_algo, s_edges, s_start, s_end, s_visited, s_frontier,
                s_parent, s_distances, s_steps, s_pc>>

appVars == <<a_selectedAlgorithm, a_inputArray, a_steps, a_currentStep,
             a_isPlaying, a_interval, a_lastAction>>

updVars == <<u_selectedAlgorithm, u_input, u_steps, u_currentStep, u_totalSteps,
             u_isPlaying, u_animationInterval, u_timers, u_lastAction>>

vizVars == <<v_type, v_input, e_steps, e_currentStep, v_array, v_graph, v_tree,
             v_grid, v_order, v_calls, v_last>>

travVars == <<t_type, t_tree, t_steps, t_pc>>

\* the groups of the algorithm plugins and of the scene registry
regVars == <<r_objects, r_registry, r_viz, r_call, r_builds, r_last>>

sortVars == <<q_impl, q_algorithm, q_arr, q_steps, q_pc>>

astarVars == <<k_grid, k_start, k_end, k_heuristic, k_openSet, k_closedSet,
               k_gScore, k_fScore, k_parent, k_steps, k_pc>>

\* the algorithm catalogue (AlgorithmRegistry)
VARIABLES
  c_algorithms,  \* this.algorithms : Map, id -> the category of the algorithm
  c_categories,  \* this.categories : Map, category -> the list of ids pushed
  c_calls,       \* number of register calls made after construction
  c_last         \* the method that ran last

\* one visual element (NodeElement or ArrayElement) and its highlight timers
VARIABLES
  h_kind,       \* "node" | "array" | "none"
  h_state,      \* this.state
  h_fillColor,  \* this.fillColor
  h_engine,     \* TRUE when this.engine is set
  h_timers,     \* the pending highlight timeouts: [n, originalColor]
  h_calls,      \* number of setState and highlight calls made
  h_last        \* the method or callback that ran last

geomVars == <<g_width, g_height, g_layout>>

elemVars == <<h_kind, h_state, h_fillColor, h_engine, h_timers, h_calls, h_last>>

catVars == <<c_algorithms, c_categories, c_calls, c_last>>

\* the groups outside the canvas
lateVars == <<catVars, elemVars>>

\* the groups added for the canvas
moreVars == <<geomVars, lateVars>>

extVars == <<travVars, regVars, sortVars, astarVars, moreVars>>

vars == <<searchVars, appVars, updVars, vizVars, extVars>>

\* what an action of one subsystem leaves alone
OutsideSearch == <<appVars, updVars, vizVars, extVars>>

OutsideApp == <<searchVars, updVars, vizVars, extVars>>

OutsideUpd == <<searchVars, appVars, vizVars, extVars>>

OutsideViz == <<searchVars, appVars, updVars, extVars>>

OutsideTrav == <<searchVars, appVars, updVars, vizVars, regVars, sortVars, astarVars, moreVars>>

OutsideReg == <<searchVars, appVars, updVars, vizVars, travVars, sortVars, astarVars, moreVars>>

OutsideSort == <<searchVars, appVars, updVars, vizVars, travVars, regVars, astarVars, moreVars>>

OutsideAStar == <<searchVars, appVars, updVars, vizVars, travVars, regVars, sortVars, moreVars>>

\* a resize leaves these alone; it writes the canvas group and v_last
OutsideResize == <<searchVars, appVars, updVars, travVars, regVars, sortVars, astarVars, lateVars>>

(***************************************************************************)
(* Generic helpers.                                                        *)
(***************************************************************************)
Range(f) == {f[i] : i \in DOMAIN f}

Includes(seq, x) == \E i \in 1..Len(seq) : seq[i] = x

SeqsUpTo(S, n) == UNION {[1..k -> S] : k \in 0..n}

\* the lists over S of at most n elements, no element twice
ListsUpTo(S, n) == {q \in SeqsUpTo(S, n) : \A i, j \in 1..Len(q) : q[i] = q[j] => i = j}

\* Map.set(k, v)
MapSet(m, k, v) == [x \in (DOMAIN m) \cup {k} |-> IF x = k THEN v ELSE m[x]]

EmptyMap == [x \in {} |-> Null]

(***************************************************************************)
(* The constructed state of a subsystem that a specification does not run. *)
(***************************************************************************)
\* no search is running
SearchIdle ==
  /\ s_algo = "none" /\ s_edges = <<>> /\ s_start = Null /\ s_end = Null
  /\ s_visited = {} /\ s_frontier = <<>> /\ s_parent = EmptyMap
  /\ s_distances = EmptyMap /\ s_steps = <<>> /\ s_pc = "idle"

\* App.jsx lines 15-23: the useState initial values (steps empty, not playing)
AppIdle ==
  /\ a_selectedAlgorithm = "bubble_sort" /\ a_inputArray = <<>> /\ a_steps = <<>>
  /\ a_currentStep = 0 /\ a_isPlaying = FALSE /\ a_interval = FALSE
  /\ a_lastAction = "none"

\* App_Updated.jsx lines 17-42: the useState initial values
UpdIdle ==
  /\ u_selectedAlgorithm = "bubble_sort" /\ u_input = <<>> /\ u_steps = <<>>
  /\ u_currentStep = 0 /\ u_totalSteps = 0 /\ u_isPlaying = FALSE
  /\ u_animationInterval = Null /\ u_timers = {} /\ u_lastAction = "none"

\* a tree of one node whose value is v
Leaf(v) == [n |-> 1, format |-> "binary", parent |-> <<0>>, slot |-> <<"root">>,
            value |-> <<v>>]

TravIdle == t_type = "none" /\ t_tree = Leaf(1) /\ t_steps = <<>> /\ t_pc = "idle"

\* no visualization yet, nothing registered (BaseElement.js lines 171-173)
NoViz == [type |-> "none", elements |-> <<>>, edges |-> <<>>]

NoCall == [pc |-> "idle", pending |-> <<>>,
           input |-> [type |-> "none", nodes |-> <<>>, edges |-> <<>>]]

RegIdle ==
  /\ r_objects = <<>> /\ r_registry = EmptyMap /\ r_viz = NoViz
  /\ r_call = NoCall /\ r_builds = 0 /\ r_last = "none"

SortIdle ==
  /\ q_impl = "none" /\ q_algorithm = "none" /\ q_arr = <<>> /\ q_steps = <<>>
  /\ q_pc = "idle"

AStarIdle ==
  /\ k_grid = [rows |-> 0, cols |-> 0, walls |-> {}] /\ k_start = <<0, 0>> /\ k_end = <<0, 0>> /\ k_heuristic = "none"
  /\ k_openSet = <<>> /\ k_closedSet = {} /\ k_gScore = EmptyMap /\ k_fScore = EmptyMap
  /\ k_parent = EmptyMap /\ k_steps = <<>> /\ k_pc = "idle"

\* no layout computed yet
NoLayout == [kind |-> "none", unit |-> 1, xs |-> <<>>, ys |-> <<>>, size |-> 0]

\* the canvas as the component renders it (ModularAlgorithmVisualizer.jsx
\* lines 192-195), read by the engine's constructor (BaseElement.js lines
\* 153-154)
GeomIdle == g_width = 800 /\ g_height = 400 /\ g_layout = NoLayout

CatIdle ==
  /\ c_algorithms = EmptyMap /\ c_categories = EmptyMap
  /\ c_calls = 0 /\ c_last = "none"

ElemIdle ==
  /\ h_kind = "none" /\ h_state = "default" /\ h_fillColor = "#e5e7eb"
  /\ h_engine = FALSE /\ h_timers = {} /\ h_calls = 0 /\ h_last = "none"

LateIdle == CatIdle /\ ElemIdle

MoreIdle == GeomIdle /\ LateIdle

ExtIdle == TravIdle /\ RegIdle /\ SortIdle /\ AStarIdle /\ MoreIdle

\* adapters as constructed, before any data is set; the engine as constructed
\* (BaseElement.js lines 165-169)
EmptyArrayViz == [data |-> <<>>, values |-> <<>>, states |-> <<>>]

EmptyGraphViz == [nodes |-> {}, edges |-> {}, adjacencyList |-> EmptyMap,
                  nodeState |-> EmptyMap, edgeState |-> EmptyMap]

EmptyTreeViz == [values |-> <<>>, states |-> <<>>]

NoCell == <<>>

EmptyGridViz == [cells |-> EmptyMap, startCell |-> NoCell, endCell |-> NoCell]

NotApplied == [kind |-> "fresh", k |-> 0]

Last(op, arg, kind) == [op |-> op, arg |-> arg, kind |-> kind]

VizIdle ==
  /\ v_type = "none" /\ v_input = <<>> /\ e_steps = <<>> /\ e_currentStep = 0
  /\ v_array = EmptyArrayViz /\ v_graph = EmptyGraphViz /\ v_tree = EmptyTreeViz
  /\ v_grid = EmptyGridViz /\ v_order = NotApplied /\ v_calls = 0
  /\ v_last = Last("none", 0, "none")

(***************************************************************************)
(* Graph search: inputs and step records.                                  *)
(***************************************************************************)
\* undirected edges between two different nodes
EdgeRecs == {e \in [from : Nodes, to : Nodes, directed : {FALSE}] : e.from # e.to}

EdgeLists == SeqsUpTo(EdgeRecs, MaxEdges)

SearchStep(t, n, ns, p, f, to) ==
  [type |-> t, nodeId |-> n, nodeIds |-> ns, path |-> p, fromNode |-> f, toNode |-> to]

\* getNeighbors for a graph given as an edge list
RECURSIVE GetNeighborsFrom(_, _, _)
GetNeighborsFrom(edges, nodeId, i) ==
  IF i > Len(edges) THEN <<>>
  ELSE LET e == edges[i]
           rest == GetNeighborsFrom(edges, nodeId, i + 1)
       IN IF e.from = nodeId THEN <<e.to>> \o rest
          ELSE IF ~e.directed /\ e.to = nodeId THEN <<e.from>> \o rest
          ELSE rest

GetNeighbors(edges, nodeId) == GetNeighborsFrom(edges, nodeId, 1)

\* reconstructPath: follow parent from end until null, prepending.  A node
\* without a parent entry would make the JavaScript loop run forever; the
\* walk stops there instead (the searches only reconstruct from a node that
\* was taken off the frontier, which always has an entry).
RECURSIVE ReconstructFrom(_, _, _)
ReconstructFrom(parent, current, path) ==
  IF current = Null \/ current \notin DOMAIN parent THEN path
  ELSE ReconstructFrom(parent, parent[current], <<current>> \o path)

reconstructPath(parent, start, end) == ReconstructFrom(parent, end, <<>>)

(***************************************************************************)
(* BFSAlgorithm.execute                                                    *)
(***************************************************************************)
\* the test of line 81 with the queue membership test left out
BFSShouldEnqueueVisitedOnly(visited, queue, neighbor) == neighbor \notin visited

\* line 81: !visited.has(neighbor) && !queue.includes(neighbor)
BFSShouldEnqueue(visited, queue, neighbor) ==
  neighbor \notin visited /\ ~Includes(queue, neighbor)

\* lines 80-87: the loop over the neighbours of currentNode
RECURSIVE BFSExplore(_, _, _, _)
BFSExplore(neighbors, i, currentNode, acc) ==
  IF i > Len(neighbors) THEN acc
  ELSE LET neighbor == neighbors[i]
       IN IF BFSShouldEnqueue(acc.visited, acc.queue, neighbor)
          THEN BFSExplore(neighbors, i + 1, currentNode,
                 [acc EXCEPT !.queue = Append(@, neighbor),
                             !.parent = MapSet(@, neighbor, currentNode),
                             !.distances = MapSet(@, neighbor, acc.distances[currentNode] + 1),
                             !.newFrontier = Append(@, neighbor)])
          ELSE BFSExplore(neighbors, i + 1, currentNode, acc)

\* lines 40-96: one iteration of the while loop
BFSIterate ==
  /\ s_algo = "bfs" /\ s_pc = "loop" /\ s_frontier # <<>>
  /\ LET currentNode == Head(s_frontier)
         queue1 == Tail(s_frontier)
         findPath == s_end # Null
         steps1 == Append(s_steps, SearchStep("current", currentNode, <<>>, <<>>, Null, Null))
     IN IF findPath /\ currentNode = s_end
        THEN /\ s_steps' = steps1 \o
                  << SearchStep("found", currentNode, <<>>, <<>>, Null, Null),
                     SearchStep("highlight_path", Null, <<>>,
                                reconstructPath(s_parent, s_start, s_end), Null, Null) >>
             /\ s_frontier' = queue1
             /\ s_pc' = "final"
             /\ UNCHANGED <<s_visited, s_parent, s_distances>>
        ELSE LET visited1 == s_visited \cup {currentNode}
                 steps2 == Append(steps1, SearchStep("visit", currentNode, <<>>, <<>>, Null, Null))
                 r == BFSExplore(GetNeighbors(s_edges, currentNode), 1, currentNode,
                        [visited |-> visited1, queue |-> queue1, parent |-> s_parent,
                         distances |-> s_distances, newFrontier |-> <<>>])
             IN /\ s_visited' = visited1
                /\ s_frontier' = r.queue
                /\ s_parent' = r.parent
                /\ s_distances' = r.distances
                /\ s_steps' = IF Len(r.newFrontier) > 0
                              THEN Append(steps2, SearchStep("frontier", Null, r.newFrontier, <<>>, Null, Null))
                              ELSE steps2
                /\ s_pc' = IF r.queue = <<>> THEN "final" ELSE "loop"
  /\ UNCHANGED <<s_algo, s_edges, s_start, s_end>>
  /\ UNCHANGED OutsideSearch

\* lines 98-111 (BFS) and 370-383 (DFS): the final result
SearchFinal ==
  /\ s_pc = "final"
  /\ LET findPath == s_end # Null
     IN s_steps' = IF findPath /\ s_end \notin s_visited
                   THEN Append(s_steps, SearchStep("not_found", Null, <<>>, <<>>, Null, Null))
                   ELSE IF ~findPath
                   THEN Append(s_steps, SearchStep("complete", Null, <<>>, <<>>, Null, Null))
                   ELSE s_steps
  /\ s_pc' = "done"
  /\ UNCHANGED <<s_algo, s_edges, s_start, s_end, s_visited, s_frontier, s_parent, s_distances>>
  /\ UNCHANGED OutsideSearch

(***************************************************************************)
(* DFSAlgorithm.execute                                                    *)
(***************************************************************************)
\* line 337: neighbors.filter(neighbor => !visited.has(neighbor))
RECURSIVE FilterUnvisited(_, _, _)
FilterUnvisited(neighbors, visited, i) ==
  IF i > Len(neighbors) THEN <<>>
  ELSE IF neighbors[i] \notin visited
       THEN <<neighbors[i]>> \o FilterUnvisited(neighbors, visited, i + 1)
       ELSE FilterUnvisited(neighbors, visited, i + 1)

\* lines 340-346 without the test of line 342
RECURSIVE DFSPushUnguarded(_, _, _, _)
DFSPushUnguarded(unvisitedNeighbors, i, currentNode, acc) ==
  IF i < 1 THEN acc
  ELSE LET neighbor == unvisitedNeighbors[i]
       IN DFSPushUnguarded(unvisitedNeighbors, i - 1, currentNode,
            [acc EXCEPT !.parent = MapSet(@, neighbor, currentNode),
                        !.stack = Append(@, neighbor)])

\* lines 340-346: push the unvisited neighbours in reverse order
RECURSIVE DFSPush(_, _, _, _)
DFSPush(unvisitedNeighbors, i, currentNode, acc) ==
  IF i < 1 THEN acc
  ELSE LET neighbor == unvisitedNeighbors[i]
       IN IF neighbor \notin DOMAIN acc.parent
          THEN DFSPush(unvisitedNeighbors, i - 1, currentNode,
                 [acc EXCEPT !.parent = MapSet(@, neighbor, currentNode),
                             !.stack = Append(@, neighbor)])
          ELSE DFSPush(unvisitedNeighbors, i - 1, currentNode, acc)

\* lines 294-368: one iteration of the while loop
DFSIterate ==
  /\ s_algo = "dfs" /\ s_pc = "loop" /\ s_frontier # <<>>
  /\ LET currentNode == s_frontier[Len(s_frontier)]
         stack1 == SubSeq(s_frontier, 1, Len(s_frontier) - 1)
         findPath == s_end # Null
         steps1 == Append(s_steps, SearchStep("current", currentNode, <<>>, <<>>, Null, Null))
     IN IF currentNode \in s_visited
        THEN /\ s_frontier' = stack1
             /\ s_pc' = IF stack1 = <<>> THEN "final" ELSE "loop"
             /\ UNCHANGED <<s_visited, s_parent, s_steps>>
        ELSE IF findPath /\ currentNode = s_end
        THEN /\ s_steps' = steps1 \o
                  << SearchStep("found", currentNode, <<>>, <<>>, Null, Null),
                     SearchStep("highlight_path", Null, <<>>,
                                reconstructPath(s_parent, s_start, s_end), Null, Null) >>
             /\ s_frontier' = stack1
             /\ s_pc' = "final"
             /\ UNCHANGED <<s_visited, s_parent>>
        ELSE LET visited1 == s_visited \cup {currentNode}
                 steps2 == Append(steps1, SearchStep("visit", currentNode, <<>>, <<>>, Null, Null))
                 unvisitedNeighbors == FilterUnvisited(GetNeighbors(s_edges, currentNode), visited1, 1)
                 r == DFSPush(unvisitedNeighbors, Len(unvisitedNeighbors), currentNode,
                              [parent |-> s_parent, stack |-> stack1])
                 steps3 == IF Len(unvisitedNeighbors) > 0
                           THEN Append(steps2, SearchStep("add_to_stack", Null, unvisitedNeighbors, <<>>, Null, Null))
                           ELSE steps2
                 steps4 == IF Len(r.stack) > 0 /\ ~Includes(unvisitedNeighbors, r.stack[Len(r.stack)])
                           THEN Append(steps3, SearchStep("backtrack", Null, <<>>, <<>>,
                                                          currentNode, r.stack[Len(r.stack)]))
                           ELSE steps3
             IN /\ s_visited' = visited1
                /\ s_frontier' = r.stack
                /\ s_parent' = r.parent
                /\ s_steps' = steps4
                /\ s_pc' = IF r.stack = <<>> THEN "final" ELSE "loop"
  /\ UNCHANGED <<s_algo, s_edges, s_start, s_end, s_distances>>
  /\ UNCHANGED OutsideSearch

\* lines 19-38 (BFS) and 276-292 (DFS): the state on entering the loop
SearchEntered(algo, edges, start, end) ==
  /\ s_algo = algo
  /\ s_edges = edges
  /\ s_start = start
  /\ s_end = end
  /\ s_visited = {}
  /\ s_frontier = <<start>>
  /\ s_parent = MapSet(EmptyMap, start, Null)
  /\ s_distances = IF algo = "bfs" THEN MapSet(EmptyMap, start, 0) ELSE EmptyMap
  /\ s_steps = << SearchStep("start", start, <<>>, <<>>, Null, Null) >>
  /\ s_pc = "loop"

InitBFS ==
  /\ \E edges \in EdgeLists, start \in Nodes, end \in Nodes \cup {Null} :
        SearchEntered("bfs", edges, start, end)
  /\ AppIdle /\ UpdIdle /\ VizIdle /\ ExtIdle

InitDFS ==
  /\ \E edges \in EdgeLists, start \in Nodes, end \in Nodes \cup {Null} :
        SearchEntered("dfs", edges, start, end)
  /\ AppIdle /\ UpdIdle /\ VizIdle /\ ExtIdle

NextBFS == BFSIterate \/ SearchFinal

NextDFS == DFSIterate \/ SearchFinal

SpecBFS == InitBFS /\ [][NextBFS]_vars

SpecDFS == InitDFS /\ [][NextDFS]_vars

\* either search
InitSearch == InitBFS \/ InitDFS

NextSearch == BFSIterate \/ DFSIterate \/ SearchFinal

SpecSearch == InitSearch /\ [][NextSearch]_vars

(***************************************************************************)
(* Graph facts the search claims are stated against, computed from the     *)
(* input edge list alone.                                                  *)
(***************************************************************************)
\* u and v are joined by an edge of the input (either way round when the
\* edge is undirected)
Joined(edges, u, v) ==
  \E i \in 1..Len(edges) :
     \/ edges[i].from = u /\ edges[i].to = v
     \/ ~edges[i].directed /\ edges[i].to = u /\ edges[i].from = v

\* the nodes within k edges of a
RECURSIVE Ball(_, _, _)
Ball(edges, a, k) ==
  IF k = 0 THEN {a}
  ELSE LET B == Ball(edges, a, k - 1)
       IN B \cup {v \in Nodes : \E u \in B : Joined(edges, u, v)}

ReachableFrom(edges, a) == Ball(edges, a, NumNodes)

\* number of edges of a shortest path from a to b (b reachable from a)
\* (the balls grow with k, so the first ball holding b is the one after the
\* last ball without it)
Dist(edges, a, b) == CHOOSE k \in 0..NumNodes :
                        /\ b \in Ball(edges, a, k)
                        /\ k = 0 \/ b \notin Ball(edges, a, k - 1)

HasStep(steps, t) == \E k \in 1..Len(steps) : steps[k].type = t

\* the step indices of a given type, and their count
StepsOfType(steps, t) == {k \in 1..Len(steps) : steps[k].type = t}

(***************************************************************************)
(* C1: for BFS and DFS run with an endNode, the finished log contains      *)
(* not_found iff endNode is unreachable from startNode; when endNode is    *)
(* reachable the log ends with found, highlight_path and has no not_found. *)
(***************************************************************************)
C1_NotFoundIffUnreachable ==
  (s_pc = "done" /\ s_end # Null) =>
     LET n == Len(s_steps)
         reachable == s_end \in ReachableFrom(s_edges, s_start)
     IN /\ HasStep(s_steps, "not_found") <=> ~reachable
        /\ reachable => /\ n >= 2
                        /\ s_steps[n - 1].type = "found"
                        /\ s_steps[n].type = "highlight_path"

(***************************************************************************)
(* C10: whenever BFS emits highlight_path the path starts at startNode,    *)
(* ends at endNode, consecutive nodes are joined by an input edge and the  *)
(* path has as few edges as any start-to-end path; nodes become current in *)
(* non-decreasing distance from startNode, each at most once.              *)
(***************************************************************************)
C10_BFSShortestPathAndOrder ==
  LET reachable == ReachableFrom(s_edges, s_start)
      dist == [n \in reachable |-> Dist(s_edges, s_start, n)]
      current == StepsOfType(s_steps, "current")
  IN  /\ \A k \in StepsOfType(s_steps, "highlight_path") :
            LET p == s_steps[k].path
            IN /\ Len(p) >= 1
               /\ p[1] = s_start
               /\ p[Len(p)] = s_end
               /\ \A i \in 1..(Len(p) - 1) : Joined(s_edges, p[i], p[i + 1])
               /\ s_end \in reachable
               /\ Len(p) - 1 = dist[s_end]
      /\ \A i \in current : s_steps[i].nodeId \in reachable
      /\ \A i, j \in current :
            i < j => /\ s_steps[i].nodeId # s_steps[j].nodeId
                     /\ dist[s_steps[i].nodeId] <= dist[s_steps[j].nodeId]

\* a finished BFS run that found a two-edge path after making three nodes current
C10_Witness ==
  /\ s_algo = "bfs" /\ s_pc = "done"
  /\ \E k \in StepsOfType(s_steps, "highlight_path") : Len(s_steps[k].path) = 3
  /\ Cardinality(StepsOfType(s_steps, "current")) >= 3

(***************************************************************************)
(* Sorting step generators (AlgorithmRegistry.bubbleSortSteps /            *)
(* selectionSortSteps; App.jsx carries the same two loops).  Array indices *)
(* in steps are the 0-based JavaScript indices; arr[k + 1] is arr[k].      *)
(***************************************************************************)
Values == 1..MaxVal

\* non-empty integer arrays, as the parsed custom input
Arrays == UNION {[1..k -> Values] : k \in 1..MaxLen}

ArrayStep(t, idx, arr) == [type |-> t, indices |-> idx, array |-> arr]

\* [arr[i], arr[j]] = [arr[j], arr[i]]
SwapAt(arr, i, j) == [arr EXCEPT ![i + 1] = arr[j + 1], ![j + 1] = arr[i + 1]]

\* the inner loop of bubbleSortSteps stopping one comparison early
RECURSIVE BubbleInnerShort(_, _, _, _)
BubbleInnerShort(n, i, j, acc) ==
  IF ~(j < n - i - 2) THEN acc
  ELSE LET s1 == Append(acc.steps, ArrayStep("compare", <<j, j + 1>>, acc.arr))
       IN IF acc.arr[j + 1] > acc.arr[j + 2]
          THEN LET a2 == SwapAt(acc.arr, j, j + 1)
               IN BubbleInnerShort(n, i, j + 1,
                    [arr |-> a2, swapped |-> TRUE,
                     steps |-> Append(s1, ArrayStep("swap", <<j, j + 1>>, a2))])
          ELSE BubbleInnerShort(n, i, j + 1, [acc EXCEPT !.steps = s1])

\* bubbleSortSteps lines 284-302: the inner loop from index j on
RECURSIVE BubbleInner(_, _, _, _)
BubbleInner(n, i, j, acc) ==
  IF ~(j < n - i - 1) THEN acc
  ELSE LET s1 == Append(acc.steps, ArrayStep("compare", <<j, j + 1>>, acc.arr))
       IN IF acc.arr[j + 1] > acc.arr[j + 2]
          THEN LET a2 == SwapAt(acc.arr, j, j + 1)
               IN BubbleInner(n, i, j + 1,
                    [arr |-> a2, swapped |-> TRUE,
                     steps |-> Append(s1, ArrayStep("swap", <<j, j + 1>>, a2))])
          ELSE BubbleInner(n, i, j + 1, [acc EXCEPT !.steps = s1])

\* the outer loop of bubbleSortSteps without `if (!swapped) break`
RECURSIVE BubbleOuterNoBreak(_, _, _)
BubbleOuterNoBreak(n, i, acc) ==
  IF ~(i < n) THEN acc.steps
  ELSE LET r == BubbleInner(n, i, 0, [arr |-> acc.arr, swapped |-> FALSE, steps |-> acc.steps])
           s2 == Append(r.steps, ArrayStep("pass_complete", <<n - i - 1>>, r.arr))
       IN BubbleOuterNoBreak(n, i + 1, [arr |-> r.arr, steps |-> s2])

\* bubbleSortSteps lines 282-312: the outer loop from pass i on
RECURSIVE BubbleOuter(_, _, _)
BubbleOuter(n, i, acc) ==
  IF ~(i < n) THEN acc.steps
  ELSE LET r == BubbleInner(n, i, 0, [arr |-> acc.arr, swapped |-> FALSE, steps |-> acc.steps])
           s2 == Append(r.steps, ArrayStep("pass_complete", <<n - i - 1>>, r.arr))
       IN IF ~r.swapped THEN s2
          ELSE BubbleOuter(n, i + 1, [arr |-> r.arr, steps |-> s2])

bubbleSortSteps(arr) == BubbleOuter(Len(arr), 0, [arr |-> arr, steps |-> <<>>])

\* selectionSortSteps lines 337-354: the inner loop from index j on.
\* minFirst: App.jsx lists the compared pair as [minIndex, j], the registry
\* as [j, minIndex].
RECURSIVE SelectionInner(_, _, _, _)
SelectionInner(n, j, minFirst, acc) ==
  IF ~(j < n) THEN acc
  ELSE LET s1 == Append(acc.steps,
                   ArrayStep("compare",
                             IF minFirst THEN <<acc.minIndex, j>> ELSE <<j, acc.minIndex>>,
                             acc.arr))
       IN IF acc.arr[j + 1] < acc.arr[acc.minIndex + 1]
          THEN SelectionInner(n, j + 1, minFirst,
                 [acc EXCEPT !.minIndex = j,
                             !.steps = Append(s1, ArrayStep("new_min", <<j>>, acc.arr))])
          ELSE SelectionInner(n, j + 1, minFirst, [acc EXCEPT !.steps = s1])

\* the outer loop of selectionSortSteps stopping one pass early
RECURSIVE SelectionOuterShort(_, _, _, _)
SelectionOuterShort(n, i, minFirst, acc) ==
  IF ~(i < n - 2) THEN acc.steps
  ELSE LET s0 == Append(acc.steps, ArrayStep("pass_start", <<i>>, acc.arr))
           r == SelectionInner(n, i + 1, minFirst, [arr |-> acc.arr, minIndex |-> i, steps |-> s0])
           a2 == IF r.minIndex # i THEN SwapAt(acc.arr, i, r.minIndex) ELSE acc.arr
           s1 == IF r.minIndex # i
                 THEN Append(r.steps, ArrayStep("swap", <<i, r.minIndex>>, a2))
                 ELSE r.steps
           s2 == Append(s1, ArrayStep("pass_complete", <<i>>, a2))
       IN SelectionOuterShort(n, i + 1, minFirst, [arr |-> a2, steps |-> s2])

\* selectionSortSteps lines 327-372: the outer loop from pass i on
RECURSIVE SelectionOuter(_, _, _, _)
SelectionOuter(n, i, minFirst, acc) ==
  IF ~(i < n - 1) THEN acc.steps
  ELSE LET s0 == Append(acc.steps, ArrayStep("pass_start", <<i>>, acc.arr))
           r == SelectionInner(n, i + 1, minFirst, [arr |-> acc.arr, minIndex |-> i, steps |-> s0])
           a2 == IF r.minIndex # i THEN SwapAt(acc.arr, i, r.minIndex) ELSE acc.arr
           s1 == IF r.minIndex # i
                 THEN Append(r.steps, ArrayStep("swap", <<i, r.minIndex>>, a2))
                 ELSE r.steps
           s2 == Append(s1, ArrayStep("pass_complete", <<i>>, a2))
       IN SelectionOuter(n, i + 1, minFirst, [arr |-> a2, steps |-> s2])

selectionSortSteps(arr) == SelectionOuter(Len(arr), 0, FALSE, [arr |-> arr, steps |-> <<>>])

\* App.jsx lines 45-86 and 89-146
bubbleSortVisualization(arr) == BubbleOuter(Len(arr), 0, [arr |-> arr, steps |-> <<>>])

selectionSortVisualization(arr) == SelectionOuter(Len(arr), 0, TRUE, [arr |-> arr, steps |-> <<>>])

SortingAlgorithms == {"bubble_sort", "selection_sort"}

(***************************************************************************)
(* Legacy playback controller, App.jsx.  A handler runs together with the  *)
(* re-render it causes and the effects of that render.                     *)
(***************************************************************************)
\* lines 32-42: the steps generateSteps stores
generateSteps(algorithm, arr) ==
  IF algorithm = "bubble_sort" THEN bubbleSortVisualization(arr)
  ELSE selectionSortVisualization(arr)

\* line 176: the auto-play effect sets its interval under this condition
\* (and its cleanup clears the interval of the previous render)
AutoPlayEffect(isPlaying, currentStep, steps) ==
  isPlaying /\ currentStep < Len(steps) - 1

\* lines 149-151
togglePlayPause ==
  /\ a_isPlaying' = ~a_isPlaying
  /\ a_interval' = AutoPlayEffect(a_isPlaying', a_currentStep, a_steps)
  /\ a_lastAction' = "togglePlayPause"
  /\ UNCHANGED <<a_selectedAlgorithm, a_inputArray, a_steps, a_currentStep>>
  /\ UNCHANGED OutsideApp

\* lines 154-157
reset ==
  /\ a_isPlaying' = FALSE
  /\ a_currentStep' = 0
  /\ a_interval' = AutoPlayEffect(a_isPlaying', a_currentStep', a_steps)
  /\ a_lastAction' = "reset"
  /\ UNCHANGED <<a_selectedAlgorithm, a_inputArray, a_steps>>
  /\ UNCHANGED OutsideApp

\* lines 160-164 (the button is disabled when the condition is false)
stepForward ==
  /\ a_currentStep < Len(a_steps) - 1
  /\ a_currentStep' = a_currentStep + 1
  /\ a_interval' = AutoPlayEffect(a_isPlaying, a_currentStep', a_steps)
  /\ a_lastAction' = "stepForward"
  /\ UNCHANGED <<a_selectedAlgorithm, a_inputArray, a_steps, a_isPlaying>>
  /\ UNCHANGED OutsideApp

\* lines 167-171 without the test of line 168
stepBackwardUnguarded ==
  /\ a_currentStep' = a_currentStep - 1
  /\ a_interval' = AutoPlayEffect(a_isPlaying, a_currentStep', a_steps)
  /\ a_lastAction' = "stepBackward"
  /\ UNCHANGED <<a_selectedAlgorithm, a_inputArray, a_steps, a_isPlaying>>
  /\ UNCHANGED OutsideApp

\* lines 167-171 (the button is disabled when the condition is false)
stepBackward ==
  /\ a_currentStep > 0
  /\ a_currentStep' = a_currentStep - 1
  /\ a_interval' = AutoPlayEffect(a_isPlaying, a_currentStep', a_steps)
  /\ a_lastAction' = "stepBackward"
  /\ UNCHANGED <<a_selectedAlgorithm, a_inputArray, a_steps, a_isPlaying>>
  /\ UNCHANGED OutsideApp

\* lines 177-185: the interval callback
autoPlayTick ==
  /\ a_interval
  /\ IF a_currentStep >= Len(a_steps) - 1
     THEN /\ a_isPlaying' = FALSE
          /\ a_currentStep' = a_currentStep
     ELSE /\ a_currentStep' = a_currentStep + 1
          /\ a_isPlaying' = a_isPlaying
  /\ a_interval' = AutoPlayEffect(a_isPlaying', a_currentStep', a_steps)
  /\ a_lastAction' = "autoPlayTick"
  /\ UNCHANGED <<a_selectedAlgorithm, a_inputArray, a_steps>>
  /\ UNCHANGED OutsideApp

\* lines 191-201 and the effect of lines 204-206: a parsed, non-empty input
handleInputChange(parsed) ==
  /\ a_inputArray' = parsed
  /\ a_steps' = generateSteps(a_selectedAlgorithm, parsed)
  /\ a_currentStep' = 0
  /\ a_interval' = AutoPlayEffect(a_isPlaying, a_currentStep', a_steps')
  /\ a_lastAction' = "handleInputChange"
  /\ UNCHANGED <<a_selectedAlgorithm, a_isPlaying>>
  /\ UNCHANGED OutsideApp

\* setSelectedAlgorithm and the effect of lines 204-206
selectAlgorithm(algorithm) ==
  /\ algorithm # a_selectedAlgorithm
  /\ a_selectedAlgorithm' = algorithm
  /\ a_steps' = generateSteps(algorithm, a_inputArray)
  /\ a_currentStep' = 0
  /\ a_interval' = AutoPlayEffect(a_isPlaying, a_currentStep', a_steps')
  /\ a_lastAction' = "selectAlgorithm"
  /\ UNCHANGED <<a_inputArray, a_isPlaying>>
  /\ UNCHANGED OutsideApp

\* the mounted component: initial state after the first run of the effects
InitApp ==
  /\ a_selectedAlgorithm = "bubble_sort"
  /\ a_inputArray \in Arrays
  /\ a_steps = generateSteps(a_selectedAlgorithm, a_inputArray)
  /\ a_currentStep = 0
  /\ a_isPlaying = FALSE
  /\ a_interval = FALSE
  /\ a_lastAction = "mount"
  /\ SearchIdle /\ UpdIdle /\ VizIdle /\ ExtIdle

NextApp ==
  \/ togglePlayPause
  \/ reset
  \/ stepForward
  \/ stepBackward
  \/ autoPlayTick
  \/ \E parsed \in Arrays : handleInputChange(parsed)
  \/ \E algorithm \in SortingAlgorithms : selectAlgorithm(algorithm)

SpecApp == InitApp /\ [][NextApp]_vars

(***************************************************************************)
(* C2: in App.jsx, whenever auto-play advances currentStep to the last     *)
(* index, playback stops by itself: once the tick has run and no interval  *)
(* is pending, isPlaying is false.                                         *)
(***************************************************************************)
C2_AutoPlayStopsAtLastStep ==
  (a_lastAction = "autoPlayTick" /\ a_currentStep = Len(a_steps) - 1 /\ ~a_interval)
     => ~a_isPlaying

(***************************************************************************)
(* Modular playback controller, App_Updated.jsx, with the step log that    *)
(* ModularAlgorithmVisualizer computes for the selected sorting algorithm. *)
(***************************************************************************)
\* arrays as processInputData parses them (line 74): possibly empty
ParsedArrays == UNION {[1..k -> Values] : k \in 0..MaxLen}

\* AlgorithmRegistry.executeAlgorithm for the two sorting entries
executeAlgorithm(algorithmId, input) ==
  IF algorithmId = "bubble_sort" THEN bubbleSortSteps(input)
  ELSE selectionSortSteps(input)

\* setInterval: a fresh interval id
FreshTimerId == CHOOSE id \in 1..(Cardinality(u_timers) + 2) :
                   /\ id # u_animationInterval
                   /\ \A t \in u_timers : t.id # id

\* clearInterval(id)
ClearInterval(timers, id) == {t \in timers : t.id # id}

\* lines 156-178
handlePlay ==
  /\ IF u_isPlaying
     THEN /\ u_isPlaying' = FALSE
          /\ IF u_animationInterval # Null
             THEN /\ u_timers' = ClearInterval(u_timers, u_animationInterval)
                  /\ u_animationInterval' = Null
             ELSE UNCHANGED <<u_timers, u_animationInterval>>
     ELSE /\ u_isPlaying' = TRUE
          /\ u_timers' = u_timers \cup {[id |-> FreshTimerId, totalSteps |-> u_totalSteps]}
          /\ u_animationInterval' = FreshTimerId
  /\ u_lastAction' = "handlePlay"
  /\ UNCHANGED <<u_selectedAlgorithm, u_input, u_steps, u_currentStep, u_totalSteps>>
  /\ UNCHANGED OutsideUpd

\* lines 165-175: the callback of the interval t
playTick(t) ==
  /\ t \in u_timers
  /\ IF u_currentStep >= t.totalSteps - 1
     THEN /\ u_isPlaying' = FALSE
          /\ u_timers' = ClearInterval(u_timers, t.id)
          /\ u_animationInterval' = Null
          /\ u_currentStep' = u_currentStep
     ELSE /\ u_currentStep' = u_currentStep + 1
          /\ UNCHANGED <<u_isPlaying, u_timers, u_animationInterval>>
  /\ u_lastAction' = "playTick"
  /\ UNCHANGED <<u_selectedAlgorithm, u_input, u_steps, u_totalSteps>>
  /\ UNCHANGED OutsideUpd

\* lines 180-187 without the clearInterval of lines 183-186
handleResetKeepsInterval ==
  /\ u_isPlaying' = FALSE
  /\ u_currentStep' = 0
  /\ UNCHANGED <<u_timers, u_animationInterval>>
  /\ u_lastAction' = "handleReset"
  /\ UNCHANGED <<u_selectedAlgorithm, u_input, u_steps, u_totalSteps>>
  /\ UNCHANGED OutsideUpd

\* lines 180-187
handleReset ==
  /\ u_isPlaying' = FALSE
  /\ u_currentStep' = 0
  /\ IF u_animationInterval # Null
     THEN /\ u_timers' = ClearInterval(u_timers, u_animationInterval)
          /\ u_animationInterval' = Null
     ELSE UNCHANGED <<u_timers, u_animationInterval>>
  /\ u_lastAction' = "handleReset"
  /\ UNCHANGED <<u_selectedAlgorithm, u_input, u_steps, u_totalSteps>>
  /\ UNCHANGED OutsideUpd

\* lines 189-193.  totalSteps is only written by handleVisualizationUpdate
\* (lines 206-208), which nothing calls, so the guard never holds.
handleStepForward ==
  /\ u_currentStep < u_totalSteps - 1
  /\ u_currentStep' = u_currentStep + 1
  /\ u_lastAction' = "handleStepForward"
  /\ UNCHANGED <<u_selectedAlgorithm, u_input, u_steps, u_totalSteps,
                 u_isPlaying, u_animationInterval, u_timers>>
  /\ UNCHANGED OutsideUpd

\* lines 195-199
handleStepBackward ==
  /\ u_currentStep > 0
  /\ u_currentStep' = u_currentStep - 1
  /\ u_lastAction' = "handleStepBackward"
  /\ UNCHANGED <<u_selectedAlgorithm, u_input, u_steps, u_totalSteps,
                 u_isPlaying, u_animationInterval, u_timers>>
  /\ UNCHANGED OutsideUpd

\* setArrayInput, processInputData (lines 70-76) and the visualizer's
\* executeAlgorithm (ModularAlgorithmVisualizer.jsx lines 135-151): the new
\* log is stored and engine.goToStep(0) reports step 0 to handleStepChange
setArrayInput(parsed) ==
  /\ u_input' = parsed
  /\ u_steps' = executeAlgorithm(u_selectedAlgorithm, parsed)
  /\ u_currentStep' = IF Len(u_steps') > 0 THEN 0 ELSE u_currentStep
  /\ u_lastAction' = "setArrayInput"
  /\ UNCHANGED <<u_selectedAlgorithm, u_totalSteps, u_isPlaying, u_animationInterval, u_timers>>
  /\ UNCHANGED OutsideUpd

\* setSelectedAlgorithm among the sorting algorithms, then as above
setSelectedAlgorithm(algorithmId) ==
  /\ algorithmId # u_selectedAlgorithm
  /\ u_selectedAlgorithm' = algorithmId
  /\ u_steps' = executeAlgorithm(algorithmId, u_input)
  /\ u_currentStep' = IF Len(u_steps') > 0 THEN 0 ELSE u_currentStep
  /\ u_lastAction' = "setSelectedAlgorithm"
  /\ UNCHANGED <<u_input, u_totalSteps, u_isPlaying, u_animationInterval, u_timers>>
  /\ UNCHANGED OutsideUpd

\* the mounted component with its first input processed
InitUpd ==
  /\ u_selectedAlgorithm = "bubble_sort"
  /\ u_input \in ParsedArrays
  /\ u_steps = executeAlgorithm(u_selectedAlgorithm, u_input)
  /\ u_currentStep = 0
  /\ u_totalSteps = 0
  /\ u_isPlaying = FALSE
  /\ u_animationInterval = Null
  /\ u_timers = {}
  /\ u_lastAction = "mount"
  /\ SearchIdle /\ AppIdle /\ VizIdle /\ ExtIdle

\* handleStepForward and handleStepBackward are never enabled (see
\* UpdCursorStuck) and are therefore not disjuncts
NextUpd ==
  \/ handlePlay
  \/ \E t \in u_timers : playTick(t)
  \/ handleReset
  \/ \E parsed \in ParsedArrays : setArrayInput(parsed)
  \/ \E algorithmId \in SortingAlgorithms : setSelectedAlgorithm(algorithmId)

SpecUpd == InitUpd /\ [][NextUpd]_vars

\* neither step handler can ever run
UpdCursorStuck == ~ENABLED handleStepForward /\ ~ENABLED handleStepBackward

(***************************************************************************)
(* C3: in App_Updated.jsx, after Play with a log of at least two steps,    *)
(* timer ticks advance the current step one by one and playback stops only *)
(* at the last step: a tick never leaves playback stopped below the last   *)
(* step.                                                                   *)
(***************************************************************************)
C3_PlayAnimatesToLastStep ==
  (u_lastAction = "playTick" /\ Len(u_steps) >= 2 /\ ~u_isPlaying)
     => u_currentStep = Len(u_steps) - 1

(***************************************************************************)
(* ArrayVisualization (src/unnamed/part_001): one bar per index, each with *)
(* a value and a state.                                                    *)
(***************************************************************************)
\* setData, createElements: a bar per value, every bar in the constructed state
ArraySetData(data) ==
  [data |-> data, values |-> data, states |-> [k \in 1..Len(data) |-> "default"]]

\* indices.forEach(index => { if (this.elements[index]) elements[index].setState(state) })
SetArrayStates(av, indices, state) ==
  [av EXCEPT !.states = [k \in 1..Len(av.states) |->
                           IF Includes(indices, k - 1) THEN state ELSE av.states[k]]]

\* updateFromArray lines 192-199
updateFromArray(av, newArray) ==
  [av EXCEPT !.data = newArray,
             !.values = [k \in 1..Len(av.values) |->
                           IF k <= Len(newArray) THEN newArray[k] ELSE av.values[k]]]

ArrayHandledTypes ==
  {"compare", "swap", "pass_complete", "completed", "new_min", "pass_start", "current"}

\* executeStep lines 131-190
ArrayExecuteStep(av, step) ==
  LET cleared == [av EXCEPT !.states = [k \in 1..Len(av.states) |-> "default"]]
      t == step.type
  IN  CASE t = "compare" -> SetArrayStates(cleared, step.indices, "comparing")
        [] t = "swap" ->
             LET marked == SetArrayStates(cleared, step.indices, "swapping")
             IN  IF Len(step.indices) = 2
                 THEN updateFromArray(marked, step.array) ELSE marked
        [] t \in {"pass_complete", "completed"} ->
             SetArrayStates(cleared, step.indices, "completed")
        [] t = "new_min" -> SetArrayStates(cleared, step.indices, "minimum")
        [] t \in {"pass_start", "current"} ->
             SetArrayStates(cleared, step.indices, "current")
        [] OTHER -> cleared

Reverse(arr) == [k \in 1..Len(arr) |-> arr[Len(arr) + 1 - k]]

\* steps handed to executeStep directly: every kind and one unhandled kind,
\* aimed at the first bar, at indices past the last bar, or at both, with
\* the shown values or their reversal as the step's array
ArrayProbeSteps(av) ==
  LET n == Len(av.values)
  IN  {ArrayStep(t, idx, arr) :
         t \in ArrayHandledTypes \cup {"unknown_kind"},
         idx \in {<<0>>, <<n>>, <<n, n + 1>>, <<0, n>>},
         arr \in {av.values, Reverse(av.values)}}

(***************************************************************************)
(* GraphVisualization (src/ModularAlgorithmVisualizer.jsx).  An edge is    *)
(* keyed by the pair it was declared with: `edge_${fromId}_${toId}`.       *)
(***************************************************************************)
VizNodes == 1..NumVizNodes

\* an id no node of a loaded graph has
MissingNode == NumVizNodes + 1

NodeIds == VizNodes \cup {MissingNode}

\* addNode lines 302-319
addNode(gv, id) ==
  IF id \in gv.nodes THEN gv
  ELSE [gv EXCEPT !.nodes = @ \cup {id},
                  !.nodeState = MapSet(@, id, "default"),
                  !.adjacencyList = IF id \in DOMAIN @ THEN @ ELSE MapSet(@, id, {})]

\* addEdge lines 321-347
addEdge(gv, fromId, toId, directed) ==
  IF fromId \notin gv.nodes \/ toId \notin gv.nodes THEN gv
  ELSE IF <<fromId, toId>> \in gv.edges THEN gv
  ELSE LET adj1 == [gv.adjacencyList EXCEPT ![fromId] = @ \cup {toId}]
           adj2 == IF directed THEN adj1 ELSE [adj1 EXCEPT ![toId] = @ \cup {fromId}]
       IN  [gv EXCEPT !.edges = @ \cup {<<fromId, toId>>},
                      !.edgeState = MapSet(@, <<fromId, toId>>, "default"),
                      !.adjacencyList = adj2]

RECURSIVE AddNodesFrom(_, _, _)
AddNodesFrom(gv, nodes, k) ==
  IF k > Len(nodes) THEN gv ELSE AddNodesFrom(addNode(gv, nodes[k]), nodes, k + 1)

RECURSIVE AddEdgesFrom(_, _, _, _)
AddEdgesFrom(gv, edges, directed, k) ==
  IF k > Len(edges) THEN gv
  ELSE AddEdgesFrom(addEdge(gv, edges[k][1], edges[k][2], directed), edges, directed, k + 1)

\* setGraph lines 274-278: clearGraph, then buildGraph lines 288-300
setGraph(graphData) ==
  AddEdgesFrom(AddNodesFrom(EmptyGraphViz, graphData.nodes, 1),
               graphData.edges, graphData.directed, 1)

\* visitNode lines 546-552 without the test that the node exists
visitNodeUnguarded(gv, nodeId) ==
  [gv EXCEPT !.nodeState = [n \in gv.nodes |->
     IF n = nodeId \/ nodeId \notin gv.nodes THEN "visited" ELSE gv.nodeState[n]]]

\* visitNode lines 546-552
visitNode(gv, nodeId) ==
  IF nodeId \in gv.nodes THEN [gv EXCEPT !.nodeState[nodeId] = "visited"] ELSE gv

\* setCurrentNode lines 554-567
setCurrentNode(gv, nodeId) ==
  LET cleared == [n \in gv.nodes |->
                    IF gv.nodeState[n] = "current" THEN "default" ELSE gv.nodeState[n]]
  IN  [gv EXCEPT !.nodeState = IF nodeId \in gv.nodes
                               THEN [cleared EXCEPT ![nodeId] = "current"]
                               ELSE cleared]

\* addToFrontier lines 569-577
addToFrontier(gv, nodeIds) ==
  [gv EXCEPT !.nodeState = [n \in gv.nodes |->
     IF Includes(nodeIds, n) /\ gv.nodeState[n] # "visited"
     THEN "frontier" ELSE gv.nodeState[n]]]

\* highlightEdge lines 587-594
highlightEdge(gv, fromId, toId, state) ==
  IF <<fromId, toId>> \in gv.edges
  THEN [gv EXCEPT !.edgeState[<<fromId, toId>>] = state] ELSE gv

\* resetAll lines 616-620
resetAll(gv) ==
  [gv EXCEPT !.nodeState = [n \in gv.nodes |-> "default"],
             !.edgeState = [e \in gv.edges |-> "default"]]

RECURSIVE HighlightPathEdges(_, _, _)
HighlightPathEdges(gv, path, i) ==
  IF i >= Len(path) THEN gv
  ELSE HighlightPathEdges(highlightEdge(gv, path[i], path[i + 1], "path"), path, i + 1)

\* highlightPath lines 596-614
highlightPath(gv, path) ==
  LET cleared == resetAll(gv)
      marked == [cleared EXCEPT !.nodeState = [n \in gv.nodes |->
                   IF Includes(path, n) THEN "path" ELSE cleared.nodeState[n]]]
  IN  HighlightPathEdges(marked, path, 1)

GraphHandledTypes ==
  {"visit", "current", "frontier", "highlight_edge", "highlight_path", "reset"}

GraphStep(t, nodeId, nodeIds, edgeId, path) ==
  [type |-> t, nodeId |-> nodeId, nodeIds |-> nodeIds, edgeId |-> edgeId, path |-> path]

\* executeStep lines 511-543 unless the kind is one it does not handle
GraphExecuteStepDefaultResets(gv, step) ==
  LET t == step.type
  IN  CASE t = "visit" -> visitNode(gv, step.nodeId)
        [] t = "current" -> setCurrentNode(gv, step.nodeId)
        [] t = "frontier" -> addToFrontier(gv, step.nodeIds)
        [] t = "highlight_edge" -> highlightEdge(gv, step.edgeId, Null, "active")
        [] t = "highlight_path" -> highlightPath(gv, step.path)
        [] OTHER -> resetAll(gv)

\* executeStep lines 511-543; highlight_edge passes highlightEdge the one
\* argument edgeId, so toId is undefined
GraphExecuteStep(gv, step) ==
  LET t == step.type
  IN  CASE t = "visit" -> visitNode(gv, step.nodeId)
        [] t = "current" -> setCurrentNode(gv, step.nodeId)
        [] t = "frontier" -> addToFrontier(gv, step.nodeIds)
        [] t = "highlight_edge" -> highlightEdge(gv, step.edgeId, Null, "active")
        [] t = "highlight_path" -> highlightPath(gv, step.path)
        [] t = "reset" -> resetAll(gv)
        [] OTHER -> gv

GraphProbeSteps ==
  {GraphStep(t, n, <<>>, Null, <<>>) : t \in {"visit", "current"}, n \in NodeIds}
  \cup {GraphStep("highlight_edge", Null, <<>>, n, <<>>) : n \in NodeIds}
  \cup {GraphStep("frontier", Null, ns, Null, <<>>) :
           ns \in ListsUpTo(NodeIds, NumVizNodes) \ {<<>>}}
  \cup {GraphStep("highlight_path", Null, <<>>, Null, ns) :
           ns \in ListsUpTo(NodeIds, NumVizNodes) \ {<<>>}}
  \cup {GraphStep(t, Null, <<>>, Null, <<>>) : t \in {"reset", "unknown_kind"}}

\* the graphs handed to setGraph: every node, and a list of declared edges
\* between different nodes; options.directed keeps its default, line 256
GraphInputs ==
  [nodes : {[k \in 1..NumVizNodes |-> k]},
   edges : ListsUpTo({e \in VizNodes \X VizNodes : e[1] # e[2]}, MaxVizEdges),
   directed : {FALSE}]

(***************************************************************************)
(* TreeVisualization (src/README.md): the nodes in creation order, each    *)
(* with the value it was created from and a state.  Steps name a node by   *)
(* its value.                                                              *)
(***************************************************************************)
\* setTree lines 114-118: clearTree, then createNode for the root and for
\* every descendant in preorder
setTree(treeValues) ==
  [values |-> treeValues, states |-> [k \in 1..Len(treeValues) |-> "default"]]

\* findNodeByValue lines 353-360: the first node with the value, or null
findNodeByValue(tv, value) ==
  IF \E k \in 1..Len(tv.values) : tv.values[k] = value
  THEN CHOOSE k \in 1..Len(tv.values) :
         /\ tv.values[k] = value
         /\ \A m \in 1..(k - 1) : tv.values[m] # value
  ELSE Null

\* highlightNode lines 321-327
TreeHighlightNode(tv, nodeId, state) ==
  LET node == findNodeByValue(tv, nodeId)
  IN  IF node # Null THEN [tv EXCEPT !.states[node] = state] ELSE tv

\* visitNode lines 298-304
TreeVisitNode(tv, nodeId) == TreeHighlightNode(tv, nodeId, "visited")

\* setCurrentNode lines 306-319
TreeSetCurrentNode(tv, nodeId) ==
  LET cleared == [tv EXCEPT !.states = [k \in 1..Len(tv.states) |->
                    IF tv.states[k] = "current" THEN "default" ELSE tv.states[k]]]
  IN  TreeHighlightNode(cleared, nodeId, "current")

\* highlightNodes lines 329-331
RECURSIVE TreeHighlightNodes(_, _, _)
TreeHighlightNodes(tv, nodeIds, k) ==
  IF k > Len(nodeIds) THEN tv
  ELSE TreeHighlightNodes(TreeHighlightNode(tv, nodeIds[k], "visiting"), nodeIds, k + 1)

\* resetAllNodes lines 348-351
resetAllNodes(tv) == [tv EXCEPT !.states = [k \in 1..Len(tv.states) |-> "default"]]

TreeHandledTypes == {"visit", "current", "highlight", "reset"}

TreeStep(t, nodeId, nodeIds) == [type |-> t, nodeId |-> nodeId, nodeIds |-> nodeIds]

\* executeStep lines 271-295
TreeExecuteStep(tv, step) ==
  LET t == step.type
  IN  CASE t = "visit" -> TreeVisitNode(tv, step.nodeId)
        [] t = "current" -> TreeSetCurrentNode(tv, step.nodeId)
        [] t = "highlight" -> TreeHighlightNodes(tv, step.nodeIds, 1)
        [] t = "reset" -> resetAllNodes(tv)
        [] OTHER -> tv

TreeProbeSteps ==
  {TreeStep(t, n, <<>>) : t \in {"visit", "current"}, n \in NodeIds}
  \cup {TreeStep("highlight", Null, ns) : ns \in ListsUpTo(NodeIds, NumVizNodes) \ {<<>>}}
  \cup {TreeStep(t, Null, <<>>) : t \in {"reset", "unknown_kind"}}

\* the node values of the trees handed to setTree, in preorder
TreeInputs == SeqsUpTo(VizNodes, NumVizNodes) \ {<<>>}

(***************************************************************************)
(* GridVisualization (src/GridVisualization.js, src/GridElement.js): a     *)
(* cell per coordinate pair, each with a state, a type and the visited and *)
(* inPath markers.                                                         *)
(***************************************************************************)
Cells == (0..(GridRows - 1)) \X (0..(GridCols - 1))

\* GridElement constructor lines 21-26
NewCell == [state |-> "default", type |-> "empty", visited |-> FALSE, inPath |-> FALSE]

\* createGrid lines 33-62
createGrid == [cells |-> [c \in Cells |-> NewCell], startCell |-> NoCell, endCell |-> NoCell]

\* getCell lines 260-265
getCell(row, col) ==
  IF row >= 0 /\ row < GridRows /\ col >= 0 /\ col < GridCols THEN <<row, col>> ELSE NoCell

\* visitCell lines 172-178
visitCell(gr, row, col) ==
  LET cell == getCell(row, col)
  IN  IF cell # NoCell /\ gr.cells[cell].type # "wall"
      THEN [gr EXCEPT !.cells[cell].visited = TRUE] ELSE gr

\* setCurrentCell lines 180-195 marking the cell only when the loop over the
\* grid did not just clear it
setCurrentCellUnlessCleared(gr, row, col) ==
  LET cell == getCell(row, col)
      cleared == [c \in Cells |->
                    IF gr.cells[c].state = "current"
                    THEN [gr.cells[c] EXCEPT !.state = "default"] ELSE gr.cells[c]]
  IN  [gr EXCEPT !.cells = IF cell # NoCell /\ gr.cells[cell].state # "current"
                           THEN [cleared EXCEPT ![cell].state = "current"] ELSE cleared]

\* setCurrentCell lines 180-195
setCurrentCell(gr, row, col) ==
  LET cell == getCell(row, col)
      cleared == [c \in Cells |->
                    IF gr.cells[c].state = "current"
                    THEN [gr.cells[c] EXCEPT !.state = "default"] ELSE gr.cells[c]]
  IN  [gr EXCEPT !.cells = IF cell # NoCell
                           THEN [cleared EXCEPT ![cell].state = "current"] ELSE cleared]

\* addToFrontier lines 197-205
GridAddToFrontier(gr, rows, cols) ==
  [gr EXCEPT !.cells = [c \in Cells |->
     IF /\ \E i \in 1..Len(rows) : i <= Len(cols) /\ getCell(rows[i], cols[i]) = c
        /\ ~gr.cells[c].visited
        /\ gr.cells[c].type # "wall"
     THEN [gr.cells[c] EXCEPT !.state = "frontier"] ELSE gr.cells[c]]]

\* markPath lines 207-222
markPath(gr, path) ==
  [gr EXCEPT !.cells = [c \in Cells |->
     [gr.cells[c] EXCEPT !.inPath =
        \E i \in 1..Len(path) : getCell(path[i][1], path[i][2]) = c]]]

\* setWall lines 224-230
setWall(gr, row, col) ==
  LET cell == getCell(row, col)
  IN  IF cell # NoCell /\ gr.cells[cell].type # "start" /\ gr.cells[cell].type # "end"
      THEN [gr EXCEPT !.cells[cell].type = "wall"] ELSE gr

\* setStart lines 232-244
setStart(gr, row, col) ==
  LET cleared == IF gr.startCell # NoCell
                 THEN [gr EXCEPT !.cells[gr.startCell].type = "empty"] ELSE gr
      cell == getCell(row, col)
  IN  IF cell # NoCell
      THEN [cleared EXCEPT !.cells[cell].type = "start", !.startCell = cell]
      ELSE cleared

\* setEnd lines 246-258
setEnd(gr, row, col) ==
  LET cleared == IF gr.endCell # NoCell
                 THEN [gr EXCEPT !.cells[gr.endCell].type = "empty"] ELSE gr
      cell == getCell(row, col)
  IN  IF cell # NoCell
      THEN [cleared EXCEPT !.cells[cell].type = "end", !.endCell = cell]
      ELSE cleared

\* resetGrid lines 280-289 with GridElement.reset lines 207-216
resetGrid(gr) ==
  [gr EXCEPT !.cells = [c \in Cells |->
     IF gr.cells[c].type \notin {"start", "end", "wall"}
     THEN [gr.cells[c] EXCEPT !.visited = FALSE, !.inPath = FALSE, !.state = "default"]
     ELSE gr.cells[c]]]

GridHandledTypes ==
  {"visit", "current", "add_to_frontier", "mark_path", "set_wall", "set_start",
   "set_end", "reset"}

GridStep(t, row, col, rows, cols, path) ==
  [type |-> t, row |-> row, col |-> col, rows |-> rows, cols |-> cols, path |-> path]

\* executeStep lines 129-169
GridExecuteStep(gr, step) ==
  LET t == step.type
  IN  CASE t = "visit" -> visitCell(gr, step.row, step.col)
        [] t = "current" -> setCurrentCell(gr, step.row, step.col)
        [] t = "add_to_frontier" -> GridAddToFrontier(gr, step.rows, step.cols)
        [] t = "mark_path" -> markPath(gr, step.path)
        [] t = "set_wall" -> setWall(gr, step.row, step.col)
        [] t = "set_start" -> setStart(gr, step.row, step.col)
        [] t = "set_end" -> setEnd(gr, step.row, step.col)
        [] t = "reset" -> resetGrid(gr)
        [] OTHER -> gr

\* the coordinates steps name: every cell, one past the last row, one past
\* the last column
GridTargets == Cells \cup {<<GridRows, 0>>, <<0, GridCols>>}

GridProbeSteps ==
  {GridStep(t, c[1], c[2], <<>>, <<>>, <<>>) :
     t \in {"visit", "current", "set_wall", "set_start", "set_end"}, c \in GridTargets}
  \cup {GridStep("add_to_frontier", Null, Null, <<c[1]>>, <<c[2]>>, <<>>) : c \in GridTargets}
  \cup {GridStep("mark_path", Null, Null, <<>>, <<>>, <<c>>) : c \in GridTargets}
  \cup {GridStep("mark_path", Null, Null, <<>>, <<>>, <<c, <<GridRows, 0>>>>) : c \in Cells}
  \cup {GridStep(t, Null, Null, <<>>, <<>>, <<>>) : t \in {"reset", "unknown_kind"}}

(***************************************************************************)
(* What a step is aimed at: "unknown" for a kind the adapter does not      *)
(* handle, "missing" for a handled kind all of whose targets do not exist, *)
(* "untargeted" for a handled kind that names no target, "hit" otherwise.  *)
(***************************************************************************)
KindOf(handled, targets, existing) ==
  IF ~handled THEN "unknown"
  ELSE IF targets = {} THEN "untargeted"
  ELSE IF targets \cap existing = {} THEN "missing"
  ELSE "hit"

ArrayStepKind(av, step) ==
  KindOf(step.type \in ArrayHandledTypes, Range(step.indices), 0..(Len(av.values) - 1))

\* an edgeId never names an edge highlightEdge finds
GraphStepKind(gv, step) ==
  LET t == step.type
  IN  KindOf(t \in GraphHandledTypes,
             CASE t \in {"visit", "current"} -> {step.nodeId}
               [] t = "frontier" -> Range(step.nodeIds)
               [] t = "highlight_path" -> Range(step.path)
               [] t = "highlight_edge" -> {step.edgeId}
               [] OTHER -> {},
             IF t = "highlight_edge" THEN {} ELSE gv.nodes)

TreeStepKind(tv, step) ==
  LET t == step.type
  IN  KindOf(t \in TreeHandledTypes,
             CASE t \in {"visit", "current"} -> {step.nodeId}
               [] t = "highlight" -> Range(step.nodeIds)
               [] OTHER -> {},
             Range(tv.values))

GridStepKind(step) ==
  LET t == step.type
  IN  KindOf(t \in GridHandledTypes,
             CASE t \in {"visit", "current", "set_wall", "set_start", "set_end"} ->
                    {<<step.row, step.col>>}
               [] t = "add_to_frontier" ->
                    {<<step.rows[i], step.cols[i]>> : i \in 1..Len(step.rows)}
               [] t = "mark_path" -> Range(step.path)
               [] OTHER -> {},
             Cells)

(***************************************************************************)
(* VisualizationEngine (src/BaseElement.js) driving one adapter.           *)
(***************************************************************************)
scene == <<v_array, v_graph, v_tree, v_grid>>

\* the steps that can be handed to the adapter in place
ProbeSteps ==
  CASE v_type = "array" -> ArrayProbeSteps(v_array)
    [] v_type = "graph" -> GraphProbeSteps
    [] v_type = "tree" -> TreeProbeSteps
    [] v_type = "grid" -> GridProbeSteps

StepKind(step) ==
  CASE v_type = "array" -> ArrayStepKind(v_array, step)
    [] v_type = "graph" -> GraphStepKind(v_graph, step)
    [] v_type = "tree" -> TreeStepKind(v_tree, step)
    [] v_type = "grid" -> GridStepKind(step)

\* executeStep lines 324-329: currentVisualization.executeStep(step)
executeStep(step) ==
  /\ v_array' = IF v_type = "array" THEN ArrayExecuteStep(v_array, step) ELSE v_array
  /\ v_graph' = IF v_type = "graph" THEN GraphExecuteStep(v_graph, step) ELSE v_graph
  /\ v_tree' = IF v_type = "tree" THEN TreeExecuteStep(v_tree, step) ELSE v_tree
  /\ v_grid' = IF v_type = "grid" THEN GridExecuteStep(v_grid, step) ELSE v_grid

\* the log applied in order from the start stays so when step i comes next
OrderAfter(i) ==
  IF v_order.kind = "upto" /\ i = v_order.k + 1
  THEN [kind |-> "upto", k |-> i] ELSE [kind |-> "broken", k |-> 0]

\* goToStep lines 314-322 unless stepIndex is out of range
goToStepClamped(stepIndex) ==
  LET i == IF stepIndex < 0 THEN 0
           ELSE IF stepIndex >= Len(e_steps) THEN Len(e_steps) - 1 ELSE stepIndex
  IN  /\ IF Len(e_steps) > 0
         THEN /\ e_currentStep' = i
              /\ executeStep(e_steps[i + 1])
              /\ v_order' = OrderAfter(i)
         ELSE UNCHANGED <<e_currentStep, scene, v_order>>
      /\ v_last' = Last("goToStep", stepIndex, "none")
      /\ UNCHANGED <<v_type, v_input, e_steps, v_calls, OutsideViz>>

\* goToStep lines 314-322
goToStep(stepIndex) ==
  /\ IF stepIndex >= 0 /\ stepIndex < Len(e_steps)
     THEN /\ e_currentStep' = stepIndex
          /\ executeStep(e_steps[stepIndex + 1])
          /\ v_order' = OrderAfter(stepIndex)
     ELSE UNCHANGED <<e_currentStep, scene, v_order>>
  /\ v_last' = Last("goToStep", stepIndex, "none")
  /\ UNCHANGED <<v_type, v_input, e_steps, v_calls, OutsideViz>>

\* nextStep lines 294-302
nextStep ==
  /\ IF e_currentStep < Len(e_steps) - 1
     THEN /\ e_currentStep' = e_currentStep + 1
          /\ executeStep(e_steps[e_currentStep + 2])
          /\ v_order' = OrderAfter(e_currentStep + 1)
     ELSE UNCHANGED <<e_currentStep, scene, v_order>>
  /\ v_last' = Last("nextStep", 0, "none")
  /\ UNCHANGED <<v_type, v_input, e_steps, v_calls, OutsideViz>>

\* previousStep lines 304-312 going back to the first step
previousStepRewinds ==
  /\ IF e_currentStep > 0
     THEN /\ e_currentStep' = 0
          /\ executeStep(e_steps[1])
          /\ v_order' = OrderAfter(0)
     ELSE UNCHANGED <<e_currentStep, scene, v_order>>
  /\ v_last' = Last("previousStep", 0, "none")
  /\ UNCHANGED <<v_type, v_input, e_steps, v_calls, OutsideViz>>

\* previousStep lines 304-312
previousStep ==
  /\ IF e_currentStep > 0
     THEN /\ e_currentStep' = e_currentStep - 1
          /\ executeStep(e_steps[e_currentStep])
          /\ v_order' = OrderAfter(e_currentStep - 1)
     ELSE UNCHANGED <<e_currentStep, scene, v_order>>
  /\ v_last' = Last("previousStep", 0, "none")
  /\ UNCHANGED <<v_type, v_input, e_steps, v_calls, OutsideViz>>

\* a step handed to executeStep outside the log
executeStepCall(step) ==
  /\ v_calls < MaxCalls
  /\ executeStep(step)
  /\ v_calls' = v_calls + 1
  /\ v_order' = [kind |-> "broken", k |-> 0]
  /\ v_last' = Last("executeStep", 0, StepKind(step))
  /\ UNCHANGED <<v_type, v_input, e_steps, e_currentStep, OutsideViz>>

\* src/ModularAlgorithmVisualizer.jsx lines 54-82 and 135-156 for an array
\* algorithm: setData, setSteps, goToStep(0)
loadArray(algorithmId, data) ==
  LET algorithmSteps == executeAlgorithm(algorithmId, data)
  IN  /\ v_type = "array"
      /\ v_input = data
      /\ e_steps = algorithmSteps
      /\ e_currentStep = 0
      /\ v_array = IF Len(algorithmSteps) > 0
                   THEN ArrayExecuteStep(ArraySetData(data), algorithmSteps[1])
                   ELSE ArraySetData(data)
      /\ v_graph = EmptyGraphViz /\ v_tree = EmptyTreeViz /\ v_grid = EmptyGridViz
      /\ v_order = IF Len(algorithmSteps) > 0
                   THEN [kind |-> "upto", k |-> 0] ELSE NotApplied

\* a graph adapter installed and given its graph; no log
loadGraph(graphData) ==
  /\ v_type = "graph"
  /\ v_input = graphData
  /\ e_steps = <<>> /\ e_currentStep = 0
  /\ v_graph = setGraph(graphData)
  /\ v_array = EmptyArrayViz /\ v_tree = EmptyTreeViz /\ v_grid = EmptyGridViz
  /\ v_order = NotApplied

\* a tree adapter installed and given its tree; no log
loadTree(treeValues) ==
  /\ v_type = "tree"
  /\ v_input = treeValues
  /\ e_steps = <<>> /\ e_currentStep = 0
  /\ v_tree = setTree(treeValues)
  /\ v_array = EmptyArrayViz /\ v_graph = EmptyGraphViz /\ v_grid = EmptyGridViz
  /\ v_order = NotApplied

\* a grid adapter installed: init creates the grid, setupVisualizationData
\* (lines 120-130) sets the start and end cells the input names; no log
loadGrid(start, end) ==
  /\ v_type = "grid"
  /\ v_input = <<>>
  /\ e_steps = <<>> /\ e_currentStep = 0
  /\ v_grid = LET started == IF start # NoCell
                             THEN setStart(createGrid, start[1], start[2])
                             ELSE createGrid
              IN  IF end # NoCell THEN setEnd(started, end[1], end[2]) ELSE started
  /\ v_array = EmptyArrayViz /\ v_graph = EmptyGraphViz /\ v_tree = EmptyTreeViz
  /\ v_order = NotApplied

\* the engine with an adapter installed and loaded
InitViz ==
  /\ SearchIdle /\ AppIdle /\ UpdIdle /\ ExtIdle
  /\ v_calls = 0
  /\ v_last = Last("load", 0, "none")
  /\ \/ \E algorithmId \in SortingAlgorithms, data \in Arrays : loadArray(algorithmId, data)
     \/ \E graphData \in GraphInputs : loadGraph(graphData)
     \/ \E treeValues \in TreeInputs : loadTree(treeValues)
     \/ \E start, end \in Cells \cup {NoCell} : loadGrid(start, end)

\* indices handed to goToStep: one below the log, the log, one past it
GoToArgs == (0 - 1)..Len(e_steps)

\* the engine's step management, driven through its log
NextEngine ==
  \/ \E stepIndex \in GoToArgs : goToStep(stepIndex)
  \/ nextStep
  \/ previousStep

SpecEngine == InitViz /\ [][NextEngine]_vars

\* the adapters, handed steps directly
NextScene == \E step \in ProbeSteps : executeStepCall(step)

SpecScene == InitViz /\ [][NextScene]_vars

(***************************************************************************)
(* Facts about scenes that the claims speak of.                            *)
(***************************************************************************)
\* the scene a freshly loaded array adapter shows after steps 0..i, in order
RECURSIVE ReplayFrom(_, _, _, _)
ReplayFrom(av, steps, k, i) ==
  IF k > i THEN av ELSE ReplayFrom(ArrayExecuteStep(av, steps[k + 1]), steps, k + 1, i)

Replay(data, steps, i) == ReplayFrom(ArraySetData(data), steps, 0, i)

IsSorted(arr) == \A k \in 1..(Len(arr) - 1) : arr[k] <= arr[k + 1]

Count(arr, x) == Cardinality({k \in 1..Len(arr) : arr[k] = x})

IsPermutation(a, b) == Len(a) = Len(b) /\ \A x \in Range(a) \cup Range(b) : Count(a, x) = Count(b, x)

Clamp(i, lo, hi) == IF i < lo THEN lo ELSE IF i > hi THEN hi ELSE i

\* the state of every element of the scene
ElementStates ==
  <<v_array.states, v_graph.nodeState, v_graph.edgeState, v_tree.states,
    [c \in DOMAIN v_grid.cells |-> v_grid.cells[c].state]>>

\* every node of the path exists and consecutive nodes are joined by a
\* declared edge, in either orientation
PathInGraph(gv, path) ==
  /\ Range(path) \subseteq gv.nodes
  /\ \A i \in 1..(Len(path) - 1) :
       <<path[i], path[i + 1]>> \in gv.edges \/ <<path[i + 1], path[i]>> \in gv.edges

\* C4: after goToStep(i) the scene is the one a sequential replay of steps
\* 0..i from the freshly loaded scene gives, whatever was shown before.
C4_SceneDependsOnlyOnIndex ==
  (/\ v_type = "array"
   /\ v_last.op = "goToStep"
   /\ v_last.arg >= 0 /\ v_last.arg < Len(e_steps))
    => /\ v_array.values = Replay(v_input, e_steps, v_last.arg).values
       /\ v_array.states = Replay(v_input, e_steps, v_last.arg).states

\* C5 as stated: goToStep(i) clamps i into [0, len-1], so after the call the
\* cursor is the clamped index.
C5_GoToStepClamps ==
  [][(v_last'.op = "goToStep" /\ Len(e_steps) > 0)
       => e_currentStep' = Clamp(v_last'.arg, 0, Len(e_steps) - 1)]_vars

\* C5 amended: goToStep(i) with 0 <= i < len moves the cursor to i and applies
\* step i; with any other i it changes neither the cursor nor the scene.
C5_GoToStepIgnoresOutOfRange ==
  [][v_last'.op = "goToStep"
       => IF v_last'.arg >= 0 /\ v_last'.arg < Len(e_steps)
          THEN /\ e_currentStep' = v_last'.arg
               /\ v_type = "array" =>
                    v_array' = ArrayExecuteStep(v_array, e_steps[v_last'.arg + 1])
          ELSE e_currentStep' = e_currentStep /\ scene' = scene]_vars

\* an index past the log was handed to goToStep while the cursor was not on
\* the last step, and the cursor stayed
C5_Witness ==
  /\ v_last.op = "goToStep"
  /\ v_last.arg = Len(e_steps)
  /\ Len(e_steps) >= 2
  /\ e_currentStep < Len(e_steps) - 1

\* C6: once the complete bubble or selection sort log has been applied in
\* order to the array adapter, every bar is completed and the bar values are
\* the input in sorted order.
C6_AllCompletedAndSorted ==
  (/\ v_type = "array"
   /\ v_order.kind = "upto"
   /\ v_order.k = Len(e_steps) - 1)
    => /\ \A k \in 1..Len(v_array.states) : v_array.states[k] = "completed"
       /\ IsSorted(v_array.values)
       /\ IsPermutation(v_array.values, v_input)

\* C7 as stated: a step of a kind the adapter does not handle changes nothing
\* in the scene, for every adapter.
C7_UnknownStepIsNoOp ==
  [][(v_last'.op = "executeStep" /\ v_last'.kind = "unknown") => scene' = scene]_vars

\* C7 amended: a step of a kind the adapter does not handle leaves the graph,
\* tree and grid scenes as they were; in the array adapter it leaves every
\* bar's value as it was and puts every bar in the default state.
C7_UnknownStepMarksNothing ==
  [][(v_last'.op = "executeStep" /\ v_last'.kind = "unknown")
       => IF v_type = "array"
          THEN /\ v_array'.values = v_array.values
               /\ \A k \in 1..Len(v_array.states) : v_array'.states[k] = "default"
          ELSE scene' = scene]_vars

\* a step of an unhandled kind reached a graph with a marked node, and the
\* mark is still there
C7_Witness ==
  /\ v_type = "graph"
  /\ v_last.op = "executeStep" /\ v_last.kind = "unknown"
  /\ \E n \in v_graph.nodes : v_graph.nodeState[n] # "default"

\* C8 as stated: a step of a handled kind whose target does not exist leaves
\* every element's state unchanged.
C8_MissingTargetLeavesStates ==
  [][(v_last'.op = "executeStep" /\ v_last'.kind = "missing")
       => ElementStates' = ElementStates]_vars

\* C8 amended: a step of a handled kind whose target does not exist marks
\* nothing: every element's state, cell type and visited / inPath marker is
\* what it was or back at its constructed value, and no element, start cell
\* or end cell is added or replaced.
C8_MissingTargetMarksNothing ==
  [][(v_last'.op = "executeStep" /\ v_last'.kind = "missing")
       => /\ \A k \in 1..Len(v_array.states) :
               v_array'.states[k] \in {v_array.states[k], "default"}
          /\ v_graph'.nodes = v_graph.nodes /\ v_graph'.edges = v_graph.edges
          /\ \A n \in v_graph.nodes :
               v_graph'.nodeState[n] \in {v_graph.nodeState[n], "default"}
          /\ \A e \in v_graph.edges :
               v_graph'.edgeState[e] \in {v_graph.edgeState[e], "default"}
          /\ v_tree'.values = v_tree.values
          /\ \A k \in 1..Len(v_tree.states) :
               v_tree'.states[k] \in {v_tree.states[k], "default"}
          /\ v_grid'.startCell = v_grid.startCell /\ v_grid'.endCell = v_grid.endCell
          /\ \A c \in DOMAIN v_grid.cells :
               /\ v_grid'.cells[c].state \in {v_grid.cells[c].state, NewCell.state}
               /\ v_grid'.cells[c].type \in {v_grid.cells[c].type, NewCell.type}
               /\ v_grid'.cells[c].visited \in {v_grid.cells[c].visited, NewCell.visited}
               /\ v_grid'.cells[c].inPath \in {v_grid.cells[c].inPath, NewCell.inPath}]_vars

\* a step aimed at a node that does not exist reached a graph with a marked
\* node
C8_Witness ==
  /\ v_type = "graph"
  /\ v_last.op = "executeStep" /\ v_last.kind = "missing"
  /\ \E n \in v_graph.nodes : v_graph.nodeState[n] \in {"visited", "frontier"}

\* C9: highlightPath(path) on an undirected graph, for a path along its
\* edges, leaves exactly the path's nodes in state path, every other node in
\* default, and every edge that joins two consecutive path nodes in state
\* path, whichever way round the edge was declared.
C9_HighlightPathMarksNodesAndEdges ==
  [][v_type = "graph" =>
       \A step \in GraphProbeSteps :
         (/\ ~v_input.directed
          /\ step.type = "highlight_path"
          /\ PathInGraph(v_graph, step.path)
          /\ executeStepCall(step))
           => /\ \A n \in v_graph.nodes :
                   v_graph'.nodeState[n] =
                     IF Includes(step.path, n) THEN "path" ELSE "default"
              /\ \A i \in 1..(Len(step.path) - 1) : \A e \in v_graph.edges :
                   (e = <<step.path[i], step.path[i + 1]>>
                      \/ e = <<step.path[i + 1], step.path[i]>>)
                     => v_graph'.edgeState[e] = "path"]_vars

(***************************************************************************)
(* TreeTraversalAlgorithm (src/unnamed/part_004).  A tree is held flat:    *)
(* node 1 is the root, parent[i] and slot[i] say where node i hangs        *)
(* ("left" / "right" of a binary node, "child" in children[] of an n-ary   *)
(* node, in index order), value[i] is its value.  A JavaScript value is a  *)
(* pair: <<"num", n>> a number, <<"obj", i>> the object of node i,         *)
(* <<"undef", 0>> undefined.                                               *)
(***************************************************************************)
Num(n) == <<"num", n>>

Obj(i) == <<"obj", i>>

Undefined == <<"undef", 0>>

\* truthiness of a value: `if (node.left)`, `!nodeValue`
Truthy(v) == v[1] = "obj" \/ (v[1] = "num" /\ v[2] # 0)

\* node.left / node.right: the subtree object, or undefined
ChildAt(tree, i, slot) ==
  IF \E j \in 1..tree.n : tree.parent[j] = i /\ tree.slot[j] = slot
  THEN Obj(CHOOSE j \in 1..tree.n : tree.parent[j] = i /\ tree.slot[j] = slot)
  ELSE Undefined

\* node.children, as node indices in order (empty when the node has none)
ChildrenOf(tree, i) ==
  LET IsChild(j) == tree.parent[j] = i /\ tree.slot[j] = "child"
  IN  SelectSeq([j \in 1..tree.n |-> j], IsChild)

\* findNode lines 248-272, on the subtree at node i: the node found or null
\* (children[] first, in order, then left, then right)
RECURSIVE findNode(_, _, _)
findNode(tree, i, value) ==
  IF Num(tree.value[i]) = value THEN i
  ELSE LET hits == SelectSeq(ChildrenOf(tree, i),
                             LAMBDA c : findNode(tree, c, value) # Null)
           left == ChildAt(tree, i, "left")
           right == ChildAt(tree, i, "right")
           inLeft == IF Truthy(left) THEN findNode(tree, left[2], value) ELSE Null
           inRight == IF Truthy(right) THEN findNode(tree, right[2], value) ELSE Null
       IN  IF hits # <<>> THEN findNode(tree, hits[1], value)
           ELSE IF inLeft # Null THEN inLeft
           ELSE inRight

TravStep(t, nodeId, nodeIds) == [type |-> t, nodeId |-> nodeId, nodeIds |-> nodeIds]

PushStep(acc, step) == [acc EXCEPT !.steps = Append(@, step)]

\* inorderTraversal lines 58-104, preorderTraversal lines 106-152 and
\* postorderTraversal lines 154-200: the same function but for the place of
\* the visit step
RECURSIVE DepthFirstTraversal(_, _, _, _)
DepthFirstTraversal(traversalType, tree, nodeValue, acc) ==
  IF ~Truthy(nodeValue) \/ nodeValue \in acc.visited THEN acc
  ELSE LET node == findNode(tree, 1, nodeValue)
       IN  IF node = Null THEN acc
           ELSE
             LET left == ChildAt(tree, node, "left")
                 right == ChildAt(tree, node, "right")
                 visit == TravStep("visit", nodeValue, <<>>)
                 a1 == PushStep([acc EXCEPT !.visited = @ \cup {nodeValue}],
                                TravStep("current", nodeValue, <<>>))
                 a2 == IF traversalType = "preorder" THEN PushStep(a1, visit) ELSE a1
                 a3 == IF Truthy(left)
                       THEN DepthFirstTraversal(traversalType, tree, left,
                              PushStep(a2, TravStep("explore", left, <<>>)))
                       ELSE a2
                 a4 == IF traversalType = "inorder" THEN PushStep(a3, visit) ELSE a3
                 a5 == IF Truthy(right)
                       THEN DepthFirstTraversal(traversalType, tree, right,
                              PushStep(a4, TravStep("explore", right, <<>>)))
                       ELSE a4
                 a6 == IF traversalType = "postorder" THEN PushStep(a5, visit) ELSE a5
             IN  PushStep(a6, TravStep("backtrack", nodeValue, <<>>))

inorderTraversal(tree, nodeValue, acc) ==
  DepthFirstTraversal("inorder", tree, nodeValue, acc)

preorderTraversal(tree, nodeValue, acc) ==
  DepthFirstTraversal("preorder", tree, nodeValue, acc)

postorderTraversal(tree, nodeValue, acc) ==
  DepthFirstTraversal("postorder", tree, nodeValue, acc)

\* levelOrderTraversal lines 202-246, from the queue it starts with ([rootValue])
RECURSIVE levelOrderTraversal(_, _, _)
levelOrderTraversal(tree, queue, acc) ==
  IF queue = <<>> THEN acc
  ELSE LET currentValue == Head(queue)
           rest == Tail(queue)
       IN  IF currentValue \in acc.visited THEN levelOrderTraversal(tree, rest, acc)
           ELSE LET seen == [acc EXCEPT !.visited = @ \cup {currentValue}]
                    node == findNode(tree, 1, currentValue)
                IN  IF node = Null THEN levelOrderTraversal(tree, rest, seen)
                    ELSE
                      LET left == ChildAt(tree, node, "left")
                          right == ChildAt(tree, node, "right")
                          children == (IF Truthy(left) THEN <<left>> ELSE <<>>)
                                      \o (IF Truthy(right) THEN <<right>> ELSE <<>>)
                          a1 == PushStep(PushStep(seen,
                                  TravStep("current", currentValue, <<>>)),
                                  TravStep("visit", currentValue, <<>>))
                          a2 == IF Len(children) > 0
                                THEN PushStep(a1, TravStep("enqueue", Undefined, children))
                                ELSE a1
                      IN  levelOrderTraversal(tree, rest \o children, a2)

TraversalTypes == {"inorder", "preorder", "postorder", "levelorder"}

\* execute lines 20-51, with rootValue the root's value (App_Updated.jsx line 110)
TraversalExecute(traversalType, tree) ==
  LET rootValue == Num(tree.value[1])
      acc == [steps |-> << TravStep("start", rootValue, <<>>) >>, visited |-> {}]
      ran == CASE traversalType = "inorder" -> inorderTraversal(tree, rootValue, acc)
               [] traversalType = "preorder" -> preorderTraversal(tree, rootValue, acc)
               [] traversalType = "postorder" -> postorderTraversal(tree, rootValue, acc)
               [] traversalType = "levelorder" -> levelOrderTraversal(tree, <<rootValue>>, acc)
  IN  Append(ran.steps, TravStep("complete", Undefined, <<>>))

\* the shapes of k nodes: node k hangs on an earlier node, in a free slot
RECURSIVE ShapesOfSize(_, _)
ShapesOfSize(format, k) ==
  IF k = 1
  THEN {[n |-> 1, format |-> format, parent |-> <<0>>, slot |-> <<"root">>]}
  ELSE LET Free(sh, p, sl) ==
             sl = "child" \/ ~\E j \in 1..sh.n : sh.parent[j] = p /\ sh.slot[j] = sl
           hooks == {x \in ShapesOfSize(format, k - 1) \X (1..(k - 1))
                             \X (IF format = "binary" THEN {"left", "right"}
                                                      ELSE {"child"}) :
                       Free(x[1], x[2], x[3])}
       IN  {[n |-> k, format |-> format,
             parent |-> Append(x[1].parent, x[2]),
             slot |-> Append(x[1].slot, x[3])] : x \in hooks}

\* the input trees: {value, left?, right?} with subtrees as objects, or
\* {value, children[]}
TraversalTrees ==
  UNION {{[n |-> sh.n, format |-> sh.format, parent |-> sh.parent, slot |-> sh.slot,
           value |-> v] :
             sh \in ShapesOfSize("binary", k) \cup ShapesOfSize("nary", k),
             v \in [1..k -> 1..MaxTreeNodes]} : k \in 1..MaxTreeNodes}

\* a caller runs the algorithm once on its input
execute ==
  /\ t_pc = "ready"
  /\ t_steps' = TraversalExecute(t_type, t_tree)
  /\ t_pc' = "done"
  /\ UNCHANGED <<t_type, t_tree, OutsideTrav>>

InitTrav ==
  /\ t_type \in TraversalTypes
  /\ t_tree \in TraversalTrees
  /\ t_steps = <<>>
  /\ t_pc = "ready"
  /\ SearchIdle /\ AppIdle /\ UpdIdle /\ VizIdle /\ RegIdle /\ SortIdle /\ AStarIdle
  /\ MoreIdle

NextTrav == execute

SpecTrav == InitTrav /\ [][NextTrav]_vars

\* the children of node i, left to right
KidsOf(tree, i) ==
  LET IsKid(j) == tree.parent[j] = i
      left == SelectSeq([j \in 1..tree.n |-> j],
                        LAMBDA j : IsKid(j) /\ tree.slot[j] = "left")
      others == SelectSeq([j \in 1..tree.n |-> j],
                          LAMBDA j : IsKid(j) /\ tree.slot[j] # "left")
  IN  left \o others

\* the nodes of a tree in a traversal's order, as the claim understands it
\* (in-order on children[]: the first child, the node, the other children)
RECURSIVE OrderOf(_, _, _)
RECURSIVE OrdersOf(_, _, _, _)
OrderOf(traversalType, tree, i) ==
  LET kids == KidsOf(tree, i)
      before == IF tree.format = "nary"
                THEN SubSeq(kids, 1, IF Len(kids) > 0 THEN 1 ELSE 0)
                ELSE SelectSeq(kids, LAMBDA j : tree.slot[j] = "left")
      after == SubSeq(kids, Len(before) + 1, Len(kids))
  IN  CASE traversalType = "preorder" -> <<i>> \o OrdersOf(traversalType, tree, kids, 1)
        [] traversalType = "postorder" -> OrdersOf(traversalType, tree, kids, 1) \o <<i>>
        [] OTHER -> OrdersOf(traversalType, tree, before, 1) \o <<i>>
                    \o OrdersOf(traversalType, tree, after, 1)

OrdersOf(traversalType, tree, kids, k) ==
  IF k > Len(kids) THEN <<>>
  ELSE OrderOf(traversalType, tree, kids[k]) \o OrdersOf(traversalType, tree, kids, k + 1)

RECURSIVE LevelsOf(_, _)
LevelsOf(tree, queue) ==
  IF queue = <<>> THEN <<>>
  ELSE <<Head(queue)>> \o LevelsOf(tree, Tail(queue) \o KidsOf(tree, Head(queue)))

VisitedValues(steps) ==
  LET IsVisit(st) == st.type = "visit"
      visits == SelectSeq(steps, IsVisit)
  IN  [k \in 1..Len(visits) |-> visits[k].nodeId]

ValuesInOrder(traversalType, tree) ==
  LET order == IF traversalType = "levelorder" THEN LevelsOf(tree, <<1>>)
               ELSE OrderOf(traversalType, tree, 1)
  IN  [k \in 1..Len(order) |-> Num(tree.value[order[k]])]

\* C11: for every input tree in an allowed format (here with pairwise distinct
\* node values), the run emits exactly one visit step per tree node, and the
\* visit steps come in the traversal's order.
C11_OneVisitPerNodeInOrder ==
  (t_pc = "done" /\ \A i, j \in 1..t_tree.n : t_tree.value[i] = t_tree.value[j] => i = j)
    => /\ Len(VisitedValues(t_steps)) = t_tree.n
       /\ VisitedValues(t_steps) = ValuesInOrder(t_type, t_tree)

(***************************************************************************)
(* The scene graph: VisualizationEngine.elements (BaseElement.js) and the  *)
(* elements the adapters register in it.  An element is an object number;  *)
(* r_objects[o] holds the id it was registered under and, for an edge, its *)
(* fromNode and toNode objects.  An input is [type, nodes, edges]: nodes   *)
(* the keys of the bars, nodes or cells in creation order, edges the pairs *)
(* of node keys.                                                           *)
(***************************************************************************)
ElemId(kind, a, b) == [kind |-> kind, a |-> a, b |-> b]

\* engine.addElement lines 227-231
addElement(registry, id, o) == MapSet(registry, id, o)

\* engine.removeElement lines 233-235
removeElement(registry, id) == [x \in (DOMAIN registry) \ {id} |-> registry[x]]

\* the element ids an adapter chooses: `array_${index}` (part_001 line 59),
\* `node_${id}` and `edge_${fromId}_${toId}` (ModularAlgorithmVisualizer.jsx
\* lines 310, 327), `cell_${row}_${col}` (GridVisualization.js line 56), and for
\* a tree a fresh id per node and per edge (README.md lines 136, 156)
NodeIdOf(type, key, o) ==
  CASE type = "array" -> ElemId("array", key - 1, 0)
    [] type = "graph" -> ElemId("node", key, 0)
    [] type = "grid" -> ElemId("cell", (key - 1) \div GridCols, (key - 1) % GridCols)
    [] type = "tree" -> ElemId("tnode", o, 0)

EdgeIdOf(type, edge, from, to) ==
  IF type = "tree" THEN ElemId("tedge", from, to) ELSE ElemId("edge", edge[1], edge[2])

\* createElements part_001 lines 46-61, buildGraph ModularAlgorithmVisualizer.jsx
\* lines 288-300, buildTree README.md lines 129-166, createGrid
\* GridVisualization.js lines 42-61: construct and register the nodes, then
\* the edges between them
BuildElements(objects, registry, input) ==
  LET base == Len(objects)
      n == Len(input.nodes)
      nodeObjs == [i \in 1..n |->
                     [id |-> NodeIdOf(input.type, input.nodes[i], base + i),
                      from |-> 0, to |-> 0]]
      ObjOf(key) == base + CHOOSE i \in 1..n : input.nodes[i] = key
      edgeObjs == [j \in 1..Len(input.edges) |->
                     LET from == ObjOf(input.edges[j][1])
                         to == ObjOf(input.edges[j][2])
                     IN  [id |-> EdgeIdOf(input.type, input.edges[j], from, to),
                          from |-> from, to |-> to]]
      all == objects \o nodeObjs \o edgeObjs
      RECURSIVE Register(_, _)
      Register(reg, o) ==
        IF o > Len(all) THEN reg ELSE Register(addElement(reg, all[o].id, o), o + 1)
  IN  [objects |-> all,
       registry |-> Register(registry, base + 1),
       viz |-> [type |-> input.type,
                elements |-> [i \in 1..n |-> base + i],
                edges |-> [j \in 1..Len(input.edges) |-> base + n + j]]]

\* the inputs the component can be handed
SceneInputs ==
  [type : {"array"}, nodes : {[i \in 1..k |-> i] : k \in 1..MaxLen}, edges : {<<>>}]
  \cup UNION {[type : {"graph"}, nodes : {[i \in 1..k |-> i]},
               edges : ListsUpTo({e \in (1..k) \X (1..k) : e[1] # e[2]}, MaxVizEdges)] :
                k \in 1..NumVizNodes}
  \cup {[type |-> "tree", nodes |-> [i \in 1..sh.n |-> i],
         edges |-> [j \in 1..(sh.n - 1) |-> <<sh.parent[j + 1], j + 1>>]] :
          sh \in UNION {ShapesOfSize("nary", k) : k \in 1..MaxTreeNodes}}
  \cup {[type |-> "grid", nodes |-> [i \in 1..(GridRows * GridCols) |-> i],
         edges |-> <<>>]}

\* the effect of ModularAlgorithmVisualizer.jsx lines 54-82: a new
\* visualization on the same engine, then setupVisualizationData lines 98-132
initializeVisualization(input) ==
  /\ r_call.pc = "idle"
  /\ r_builds < MaxBuilds
  /\ LET built == BuildElements(r_objects, r_registry, input)
     IN  /\ r_objects' = built.objects
         /\ r_registry' = built.registry
         /\ r_viz' = built.viz
  /\ r_builds' = r_builds + 1
  /\ r_last' = "initialize"
  /\ UNCHANGED <<r_call, OutsideReg>>

\* setData part_001 lines 34-38, setGraph ModularAlgorithmVisualizer.jsx lines
\* 274-278, setTree README.md lines 114-118, createGrid GridVisualization.js
\* lines 34-40, called on the visualization the component holds: the clearing
\* starts, own nodes first, then own edges (clearGraph lines 280-286,
\* clearTree README.md lines 120-127)
setInput(input) ==
  /\ r_call.pc = "idle"
  /\ r_builds < MaxBuilds
  /\ r_viz.type = input.type
  /\ r_call' = [pc |-> "clearing", pending |-> r_viz.elements \o r_viz.edges,
                input |-> input]
  /\ r_last' = "setInput"
  /\ UNCHANGED <<r_objects, r_registry, r_viz, r_builds, OutsideReg>>

\* BaseElement.destroy lines 136-140 (EdgeElement.destroy part_000 lines
\* 250-254): the next element of the forEach unregisters its id
destroy ==
  /\ r_call.pc = "clearing"
  /\ r_call.pending # <<>>
  /\ r_registry' = removeElement(r_registry, r_objects[Head(r_call.pending)].id)
  /\ r_call' = [r_call EXCEPT !.pending = Tail(@)]
  /\ r_last' = "destroy"
  /\ UNCHANGED <<r_objects, r_viz, r_builds, OutsideReg>>

\* the rest of the call: the own Maps are cleared and the new elements built
buildInput ==
  /\ r_call.pc = "clearing"
  /\ r_call.pending = <<>>
  /\ LET built == BuildElements(r_objects, r_registry, r_call.input)
     IN  /\ r_objects' = built.objects
         /\ r_registry' = built.registry
         /\ r_viz' = built.viz
  /\ r_builds' = r_builds + 1
  /\ r_call' = NoCall
  /\ r_last' = "build"
  /\ UNCHANGED OutsideReg

InitReg ==
  /\ RegIdle /\ SearchIdle /\ AppIdle /\ UpdIdle /\ VizIdle /\ TravIdle /\ SortIdle
  /\ AStarIdle /\ MoreIdle

NextReg ==
  \/ \E input \in SceneInputs : initializeVisualization(input)
  \/ \E input \in SceneInputs : setInput(input)
  \/ destroy
  \/ buildInput

SpecReg == InitReg /\ [][NextReg]_vars

\* the element is in the scene graph
InScene(o) == \E id \in DOMAIN r_registry : r_registry[id] = o

IsEdge(o) == r_objects[o].from # 0

\* C12: no reachable state holds a registered edge whose endpoint is no longer
\* in the scene graph (a node leaves the scene graph only after its edges).
C12_NoEdgeWithoutEndpoints ==
  \A o \in Range(r_registry) :
    IsEdge(o) => InScene(r_objects[o].from) /\ InScene(r_objects[o].to)

\* C13: after the component received a new input or algorithm, the scene graph
\* holds exactly the elements built from the new input.
C13_SceneHoldsOnlyNewElements ==
  r_last = "initialize" => Range(r_registry) = Range(r_viz.elements) \cup Range(r_viz.edges)

(***************************************************************************)
(* The keys of each element class's state-to-color mapping.                *)
(***************************************************************************)
\* ArrayElement.js lines 29-38
ArrayStateColors ==
  {"default", "comparing", "swapping", "completed", "current", "minimum", "visited"}

\* NodeElement.js lines 34-44
NodeStateColors ==
  {"default", "visited", "visiting", "current", "path", "start", "end", "blocked"}

\* EdgeElement, part_000 lines 30-37
EdgeStateColors == {"default", "active", "visited", "path", "highlighted"}

\* GridElement.js lines 40-50
GridStateColors ==
  {"empty", "wall", "start", "end", "visited", "current", "path", "frontier"}

\* C14: in every reachable state each scene element's state is default or a key
\* of that element's own state-to-color mapping.
C14_StateHasColor ==
  /\ \A i \in 1..Len(v_array.states) :
       v_array.states[i] \in {"default"} \cup ArrayStateColors
  /\ \A n \in v_graph.nodes : v_graph.nodeState[n] \in {"default"} \cup NodeStateColors
  /\ \A e \in v_graph.edges : v_graph.edgeState[e] \in {"default"} \cup EdgeStateColors
  /\ \A k \in 1..Len(v_tree.states) :
       v_tree.states[k] \in {"default"} \cup NodeStateColors
  /\ \A c \in DOMAIN v_grid.cells :
       v_grid.cells[c].state \in {"default"} \cup GridStateColors

\* C15: after an adapter's reset (a reset step: GraphVisualization.resetAll,
\* TreeVisualization.resetAllNodes, GridVisualization.resetGrid) every element
\* the adapter owns is in state default and none keeps a visited or path marker.
C15_ResetLeavesNothingMarked ==
  [][\A step \in ProbeSteps :
       (v_type \in {"graph", "tree", "grid"} /\ step.type = "reset"
          /\ executeStepCall(step))
         => /\ \A n \in v_graph.nodes : v_graph'.nodeState[n] = "default"
            /\ \A e \in v_graph.edges : v_graph'.edgeState[e] = "default"
            /\ \A k \in 1..Len(v_tree.states) : v_tree'.states[k] = "default"
            /\ \A c \in DOMAIN v_grid.cells :
                 /\ v_grid'.cells[c].state = "default"
                 /\ ~v_grid'.cells[c].visited
                 /\ ~v_grid'.cells[c].inPath]_vars

\* C16: for every step of a kind the array, graph or grid adapter handles, in
\* every scene a step can be handed to, executing the step a second time right
\* after the first leaves the scene (states, values, markers) as the first
\* execution left it.
C16_ExecuteStepIdempotent ==
  v_calls < MaxCalls =>
    \A step \in ProbeSteps :
      StepKind(step) # "unknown" =>
        CASE v_type = "array" ->
               LET once == ArrayExecuteStep(v_array, step)
               IN  ArrayExecuteStep(once, step) = once
          [] v_type = "graph" ->
               LET once == GraphExecuteStep(v_graph, step)
               IN  GraphExecuteStep(once, step) = once
          [] v_type = "grid" ->
               LET once == GridExecuteStep(v_grid, step)
               IN  GridExecuteStep(once, step) = once
          [] OTHER -> TRUE

\* a handled step changed the scene: a swap step gave the bars new values
C16_Witness ==
  /\ v_type = "array"
  /\ v_last.op = "executeStep" /\ v_last.kind = "hit"
  /\ v_array.values # v_input
  /\ \E k \in 1..Len(v_array.states) : v_array.states[k] = "swapping"

(***************************************************************************)
(* The sorting functions run on their own: the registry's bubbleSortSteps  *)
(* and selectionSortSteps (BFSAlgorithm.js), and App.jsx's                 *)
(* bubbleSortVisualization and selectionSortVisualization, which are the   *)
(* functions bubbleSort (part_006) and selectionSort (GridElement.js)      *)
(* line for line.                                                          *)
(***************************************************************************)
\* bubbleSortExecution line 317, selectionSortExecution line 377; App.jsx
\* generateSteps lines 32-42
sortExecution ==
  /\ q_pc = "ready"
  /\ q_steps' = IF q_impl = "registry" THEN executeAlgorithm(q_algorithm, q_arr)
                ELSE generateSteps(q_algorithm, q_arr)
  /\ q_pc' = "done"
  /\ UNCHANGED <<q_impl, q_algorithm, q_arr, OutsideSort>>

InitSort ==
  /\ q_impl \in {"registry", "app"}
  /\ q_algorithm \in SortingAlgorithms
  /\ q_arr \in ParsedArrays
  /\ q_steps = <<>>
  /\ q_pc = "ready"
  /\ SearchIdle /\ AppIdle /\ UpdIdle /\ VizIdle /\ TravIdle /\ RegIdle /\ AStarIdle
  /\ MoreIdle

NextSort == sortExecution

SpecSort == InitSort /\ [][NextSort]_vars

\* the array in ascending order
RECURSIVE Sorted(_)
Sorted(arr) ==
  IF arr = <<>> THEN <<>>
  ELSE LET m == CHOOSE i \in 1..Len(arr) : \A j \in 1..Len(arr) : arr[i] <= arr[j]
       IN  <<arr[m]>> \o Sorted([k \in 1..(Len(arr) - 1) |->
                                   IF k < m THEN arr[k] ELSE arr[k + 1]])

\* the positions in the log of the steps of a type, in order
PositionsOf(steps, t) ==
  LET RECURSIVE From(_)
      From(k) == IF k > Len(steps) THEN <<>>
                 ELSE (IF steps[k].type = t THEN <<k>> ELSE <<>>) \o From(k + 1)
  IN  From(1)

\* C17: in a bubble-sort log the k-th pass_complete step marks index n-k, the
\* snapshot of that step agrees with the fully sorted array at every index
\* >= n-k, and the snapshot of the last step is the sorted input.
C17_BubblePassCompletePlacesTail ==
  (q_pc = "done" /\ q_algorithm = "bubble_sort" /\ Len(q_arr) > 0) =>
    LET n == Len(q_arr)
        passes == PositionsOf(q_steps, "pass_complete")
    IN  /\ Len(passes) >= 1
        /\ \A k \in 1..Len(passes) :
             /\ q_steps[passes[k]].indices = <<n - k>>
             /\ \A idx \in (n - k)..(n - 1) :
                  q_steps[passes[k]].array[idx + 1] = Sorted(q_arr)[idx + 1]
        /\ q_steps[Len(q_steps)].array = Sorted(q_arr)

\* a run of three passes, the last one without a swap
C17_Witness ==
  /\ q_pc = "done" /\ q_algorithm = "bubble_sort"
  /\ Len(PositionsOf(q_steps, "pass_complete")) = 3
  /\ q_arr # Sorted(q_arr)

\* the number of pairs of positions of the array that are out of order
Inversions(arr) ==
  Cardinality({p \in (1..Len(arr)) \X (1..Len(arr)) : p[1] < p[2] /\ arr[p[1]] > arr[p[2]]})

\* the pair a compare step names is out of order in the step's snapshot
OutOfOrder(step) == step.array[step.indices[1] + 1] > step.array[step.indices[2] + 1]

\* C18: a bubble-sort log has one compare step per adjacent comparison (pass k
\* compares the pairs (0,1) .. (n-k-1,n-k) in order), a swap step immediately
\* after a compare step exactly when the compared pair is out of order (so the
\* number of swap steps is the number of inversions of the input), one
\* pass_complete step per outer pass, and no step after the pass_complete of
\* the first pass that made no swap.
C18_BubbleLogShape ==
  (q_pc = "done" /\ q_algorithm = "bubble_sort" /\ Len(q_arr) > 0) =>
    LET n == Len(q_arr)
        passes == PositionsOf(q_steps, "pass_complete")
        First(k) == IF k = 1 THEN 1 ELSE passes[k - 1] + 1
        Compares(k) == {p \in First(k)..(passes[k] - 1) : q_steps[p].type = "compare"}
        Swaps(k) == {p \in First(k)..(passes[k] - 1) : q_steps[p].type = "swap"}
    IN  /\ \A p \in 1..Len(q_steps) :
             q_steps[p].type \in {"compare", "swap", "pass_complete"}
        /\ \A p \in 1..Len(q_steps) :
             q_steps[p].type = "compare" =>
               (OutOfOrder(q_steps[p])
                  <=> /\ p < Len(q_steps)
                      /\ q_steps[p + 1].type = "swap"
                      /\ q_steps[p + 1].indices = q_steps[p].indices)
        /\ \A p \in 1..Len(q_steps) :
             q_steps[p].type = "swap" => p > 1 /\ q_steps[p - 1].type = "compare"
        /\ Len(PositionsOf(q_steps, "swap")) = Inversions(q_arr)
        /\ Len(passes) >= 1
        /\ \A k \in 1..Len(passes) :
             /\ Cardinality(Compares(k)) = n - k
             /\ \A j \in 0..(n - k - 1) :
                  \E p \in Compares(k) : q_steps[p].indices = <<j, j + 1>>
             /\ (Swaps(k) = {}) <=> (k = Len(passes))
        /\ passes[Len(passes)] = Len(q_steps)

\* a run with a pass that swaps twice and a pass that ends the sort
C18_Witness ==
  /\ q_pc = "done" /\ q_algorithm = "bubble_sort"
  /\ Inversions(q_arr) >= 2
  /\ q_steps[Len(q_steps)].type = "pass_complete"
  /\ \E p \in 1..(Len(q_steps) - 1) :
       q_steps[p].type = "compare" /\ q_steps[p + 1].type = "compare"

\* C19: for an input of n >= 2 elements a selection-sort log holds exactly
\* n(n-1)/2 compare steps and at most n-1 swap steps; the snapshot of the
\* pass_complete step of pass i (i = 0, 1, ...) starts with the i+1 smallest
\* elements of the input in sorted order; the last snapshot is the sorted input.
C19_SelectionLogShape ==
  (q_pc = "done" /\ q_algorithm = "selection_sort" /\ Len(q_arr) >= 2) =>
    LET n == Len(q_arr)
        passes == PositionsOf(q_steps, "pass_complete")
    IN  /\ 2 * Len(PositionsOf(q_steps, "compare")) = n * (n - 1)
        /\ Len(PositionsOf(q_steps, "swap")) <= n - 1
        /\ Len(passes) = n - 1
        /\ \A k \in 1..Len(passes) :
             /\ q_steps[passes[k]].indices = <<k - 1>>
             /\ SubSeq(q_steps[passes[k]].array, 1, k) = SubSeq(Sorted(q_arr), 1, k)
        /\ q_steps[Len(q_steps)].array = Sorted(q_arr)

\* a run that swaps in every pass
C19_Witness ==
  /\ q_pc = "done" /\ q_algorithm = "selection_sort"
  /\ Len(q_arr) >= 3
  /\ Len(PositionsOf(q_steps, "swap")) = Len(q_arr) - 1
  /\ q_steps[Len(q_steps)].array = Sorted(q_arr)

(***************************************************************************)
(* AStarAlgorithm (src/unnamed/part_002) on a grid of two rows.  A cell is *)
(* <<row, col>>.  A score is kept exactly, as the pair <<a, b>> for the    *)
(* number a + b * sqrt(2) (a cardinal move costs 1, a diagonal one         *)
(* Math.sqrt(2)).                                                          *)
(***************************************************************************)
AStarCells == (0..1) \X (0..(AStarCols - 1))

\* the cells of a grid of grid.length rows and grid[0].length columns
GridCells(grid) == (0..(grid.rows - 1)) \X (0..(grid.cols - 1))

Plus(x, y) == <<x[1] + y[1], x[2] + y[2]>>

\* x < y for scores: a + b * sqrt(2) < 0 for the difference <<a, b>>
LessThan(x, y) ==
  LET a == x[1] - y[1]
      b == x[2] - y[2]
  IN  IF a < 0 /\ b <= 0 THEN TRUE
      ELSE IF a >= 0 /\ b >= 0 THEN FALSE
      ELSE IF a < 0 THEN a * a > 2 * b * b
      ELSE 2 * b * b > a * a

AbsDiff(x, y) == IF x >= y THEN x - y ELSE y - x

\* isValidCell lines 165-172 without the test of the cell's type
isValidCellOfAnyType(grid, row, col) ==
  ~(row < 0 \/ row >= grid.rows \/ col < 0 \/ col >= grid.cols)

\* isValidCell lines 165-172
isValidCell(grid, row, col) ==
  /\ ~(row < 0 \/ row >= grid.rows \/ col < 0 \/ col >= grid.cols)
  /\ <<row, col>> \notin grid.walls

\* getNeighbors lines 146-163: cardinal directions first, then diagonal ones
AStarGetNeighbors(grid, cell) ==
  LET directions == << <<0 - 1, 0>>, <<1, 0>>, <<0, 0 - 1>>, <<0, 1>>,
                       <<0 - 1, 0 - 1>>, <<0 - 1, 1>>, <<1, 0 - 1>>, <<1, 1>> >>
      moved == [d \in 1..8 |-> <<cell[1] + directions[d][1], cell[2] + directions[d][2]>>]
  IN  SelectSeq(moved, LAMBDA c : isValidCell(grid, c[1], c[2]))

\* getMoveCost lines 174-184
getMoveCost(from, to) ==
  IF AbsDiff(from[2], to[2]) = 1 /\ AbsDiff(from[1], to[1]) = 1 THEN <<0, 1>> ELSE <<1, 0>>

\* heuristic lines 186-200, for the types with whole values
heuristic(from, to, type) ==
  LET dx == AbsDiff(from[2], to[2])
      dy == AbsDiff(from[1], to[1])
  IN  IF type = "diagonal" THEN <<IF dx >= dy THEN dx ELSE dy, 0>> ELSE <<dx + dy, 0>>

\* reconstructPath lines 206-216: from a cell back along parent
RECURSIVE AStarReconstructPath(_, _)
AStarReconstructPath(parent, current) ==
  IF current \in DOMAIN parent
  THEN Append(AStarReconstructPath(parent, parent[current]), current)
  ELSE <<current>>

\* lines 42-52: the index (from 1) of the first cell of openSet with the
\* lowest fScore
RECURSIVE LowestFScore(_, _, _, _)
LowestFScore(openSet, fScore, i, currentIndex) ==
  IF i > Len(openSet) THEN currentIndex
  ELSE LowestFScore(openSet, fScore, i + 1,
         IF LessThan(fScore[openSet[i]], fScore[openSet[currentIndex]])
         THEN i ELSE currentIndex)

\* lines 95-115 without the test of lines 98-100
RECURSIVE ExamineNeighborsNoClosedCheck(_, _, _, _, _, _, _)
ExamineNeighborsNoClosedCheck(neighbors, i, current, end, type, closedSet, acc) ==
  IF i > Len(neighbors) THEN acc
  ELSE
    LET neighbor == neighbors[i]
        tentativeGScore == Plus(acc.gScore[current], getMoveCost(current, neighbor))
        isNew == ~Includes(acc.openSet, neighbor)
        pushed == IF isNew
                  THEN [acc EXCEPT !.openSet = Append(@, neighbor),
                                   !.newFrontier = Append(@, neighbor)]
                  ELSE acc
        better == [pushed EXCEPT
                     !.parent = MapSet(@, neighbor, current),
                     !.gScore = MapSet(@, neighbor, tentativeGScore),
                     !.fScore = MapSet(@, neighbor,
                                       Plus(tentativeGScore, heuristic(neighbor, end, type)))]
    IN  ExamineNeighborsNoClosedCheck(neighbors, i + 1, current, end, type, closedSet,
          IF ~isNew /\ ~LessThan(tentativeGScore, acc.gScore[neighbor]) THEN acc
          ELSE better)

\* lines 95-115: the loop over the neighbors of current, from the i-th on
RECURSIVE ExamineNeighbors(_, _, _, _, _, _, _)
ExamineNeighbors(neighbors, i, current, end, type, closedSet, acc) ==
  IF i > Len(neighbors) THEN acc
  ELSE
    LET neighbor == neighbors[i]
        tentativeGScore == Plus(acc.gScore[current], getMoveCost(current, neighbor))
        isNew == ~Includes(acc.openSet, neighbor)
        pushed == IF isNew
                  THEN [acc EXCEPT !.openSet = Append(@, neighbor),
                                   !.newFrontier = Append(@, neighbor)]
                  ELSE acc
        better == [pushed EXCEPT
                     !.parent = MapSet(@, neighbor, current),
                     !.gScore = MapSet(@, neighbor, tentativeGScore),
                     !.fScore = MapSet(@, neighbor,
                                       Plus(tentativeGScore, heuristic(neighbor, end, type)))]
    IN  ExamineNeighbors(neighbors, i + 1, current, end, type, closedSet,
          IF neighbor \in closedSet THEN acc
          ELSE IF ~isNew /\ ~LessThan(tentativeGScore, acc.gScore[neighbor]) THEN acc
          ELSE better)

\* lines 40-128: one iteration of the while loop
AStarIterate ==
  /\ k_pc = "loop"
  /\ Len(k_openSet) > 0
  /\ LET currentIndex == LowestFScore(k_openSet, k_fScore, 2, 1)
         current == k_openSet[currentIndex]
         rest == [i \in 1..(Len(k_openSet) - 1) |->
                    IF i < currentIndex THEN k_openSet[i] ELSE k_openSet[i + 1]]
         closed == k_closedSet \cup {current}
         s1 == Append(k_steps, GridStep("current", current[1], current[2], <<>>, <<>>, <<>>))
     IN  /\ k_closedSet' = closed
         /\ IF current = k_end
            THEN /\ k_steps' = s1 \o
                      << GridStep("found", current[1], current[2], <<>>, <<>>, <<>>),
                         GridStep("mark_path", Null, Null, <<>>, <<>>,
                                  AStarReconstructPath(k_parent, k_end)) >>
                 /\ k_openSet' = rest
                 /\ k_pc' = "after"
                 /\ UNCHANGED <<k_gScore, k_fScore, k_parent>>
            ELSE LET s2 == Append(s1, GridStep("visit", current[1], current[2],
                                               <<>>, <<>>, <<>>))
                     r == ExamineNeighbors(AStarGetNeighbors(k_grid, current), 1, current,
                            k_end, k_heuristic, closed,
                            [openSet |-> rest, gScore |-> k_gScore, fScore |-> k_fScore,
                             parent |-> k_parent, newFrontier |-> <<>>])
                 IN  /\ k_openSet' = r.openSet
                     /\ k_gScore' = r.gScore
                     /\ k_fScore' = r.fScore
                     /\ k_parent' = r.parent
                     /\ k_steps' =
                          IF Len(r.newFrontier) > 0
                          THEN Append(s2, GridStep("add_to_frontier", Null, Null,
                                 [i \in 1..Len(r.newFrontier) |-> r.newFrontier[i][1]],
                                 [i \in 1..Len(r.newFrontier) |-> r.newFrontier[i][2]],
                                 <<>>))
                          ELSE s2
                     /\ k_pc' = IF Len(r.openSet) > 0 THEN "loop" ELSE "after"
  /\ UNCHANGED <<k_grid, k_start, k_end, k_heuristic, OutsideAStar>>

\* lines 130-138 with the test of line 131 reduced to openSet.length === 0
AStarFinishOpenSetOnly ==
  /\ k_pc = "after"
  /\ k_steps' = IF Len(k_openSet) = 0
                THEN Append(k_steps, GridStep("not_found", Null, Null, <<>>, <<>>, <<>>))
                ELSE k_steps
  /\ k_pc' = "done"
  /\ UNCHANGED <<k_grid, k_start, k_end, k_heuristic, k_openSet, k_closedSet,
                 k_gScore, k_fScore, k_parent, OutsideAStar>>

\* lines 130-138: after the loop
AStarFinish ==
  /\ k_pc = "after"
  /\ k_steps' = IF Len(k_openSet) = 0 /\ k_end \notin k_closedSet
                THEN Append(k_steps, GridStep("not_found", Null, Null, <<>>, <<>>, <<>>))
                ELSE k_steps
  /\ k_pc' = "done"
  /\ UNCHANGED <<k_grid, k_start, k_end, k_heuristic, k_openSet, k_closedSet,
                 k_gScore, k_fScore, k_parent, OutsideAStar>>

\* the inputs of a run: the grids of two rows whose start and end cells are
\* no walls (setWall, GridVisualization.js lines 224-230, leaves them alone),
\* and the grid of five rows and five columns without walls, from one corner
\* to the opposite one
AStarInputs ==
  {[grid |-> [rows |-> 2, cols |-> AStarCols, walls |-> w],
    start |-> st, end |-> en, heuristic |-> h] :
     st \in AStarCells, en \in AStarCells, h \in {"manhattan", "diagonal"},
     w \in {x \in SUBSET AStarCells : Cardinality(x) <= MaxWalls}}
  \cup {[grid |-> [rows |-> 5, cols |-> 5, walls |-> {}],
          start |-> <<0, 0>>, end |-> <<4, 4>>, heuristic |-> "manhattan"]}

\* lines 19-38: the input taken apart, the data structures initialised and
\* the start step pushed
InitAStar ==
  /\ \E input \in AStarInputs :
       /\ input.start \notin input.grid.walls
       /\ input.end \notin input.grid.walls
       /\ k_grid = input.grid
       /\ k_start = input.start
       /\ k_end = input.end
       /\ k_heuristic = input.heuristic
  /\ k_openSet = <<k_start>>
  /\ k_closedSet = {}
  /\ k_gScore = MapSet(EmptyMap, k_start, <<0, 0>>)
  /\ k_fScore = MapSet(EmptyMap, k_start, heuristic(k_start, k_end, k_heuristic))
  /\ k_parent = EmptyMap
  /\ k_steps = << GridStep("start", k_start[1], k_start[2], <<>>, <<>>, <<>>) >>
  /\ k_pc = "loop"
  /\ SearchIdle /\ AppIdle /\ UpdIdle /\ VizIdle /\ TravIdle /\ RegIdle /\ SortIdle
  /\ MoreIdle

NextAStar == AStarIterate \/ AStarFinish

SpecAStar == InitAStar /\ [][NextAStar]_vars

\* the cells reached from the start cell by moves to adjacent cells (the
\* eight directions) that are in the grid and no walls
RECURSIVE ReachedFrom(_)
ReachedFrom(cells) ==
  LET more == cells \cup {c \in GridCells(k_grid) \ k_grid.walls :
                            \E d \in cells : /\ AbsDiff(c[1], d[1]) <= 1
                                             /\ AbsDiff(c[2], d[2]) <= 1}
  IN  IF more = cells THEN cells ELSE ReachedFrom(more)

\* the log ends a run in the way the claim says
AStarOutcome ==
  LET found == PositionsOf(k_steps, "found")
      notFound == PositionsOf(k_steps, "not_found")
  IN  /\ Len(found) + Len(notFound) = 1
      /\ Len(found) = 1 <=> k_end \in ReachedFrom({k_start})
      /\ Len(found) = 1 =>
           /\ found[1] + 1 = Len(k_steps)
           /\ k_steps[found[1] + 1].type = "mark_path"
      /\ Len(notFound) = 1 => notFound[1] = Len(k_steps)

\* what is left of a run: the cells not yet closed, then the final test
AStarMeasure ==
  2 * Cardinality(GridCells(k_grid) \ k_closedSet)
    + (CASE k_pc = "loop" -> 2 [] k_pc = "after" -> 1 [] OTHER -> 0)

\* C20: every A* run terminates (each step of the run brings it nearer its end
\* and never leaves the loop entered with an empty open set), and its log then
\* holds exactly one of found and not_found: found, followed by mark_path,
\* exactly when the end cell is reachable from the start cell through non-wall
\* 8-connected moves, and not_found otherwise (never after found, also when
\* the open set is empty once the end cell is popped).
C20_AStarTerminatesWithOneOutcome ==
  [][/\ AStarMeasure' < AStarMeasure
     /\ AStarMeasure' >= 0
     /\ k_pc' = "loop" => Len(k_openSet') > 0
     /\ k_pc' = "done" => AStarOutcome']_vars

\* the run popped the end cell, away from the start, with the open set left
\* empty
C20_Witness ==
  /\ k_pc = "done"
  /\ k_start # k_end
  /\ Len(k_openSet) = 0
  /\ Len(PositionsOf(k_steps, "found")) = 1

\* the value a map holds for a key, Null when it holds none
ValueAt(m, k) == IF k \in DOMAIN m THEN m[k] ELSE <<Null>>

\* the cells of the current steps of a log, in order
CurrentCells(steps) ==
  LET at == PositionsOf(steps, "current")
  IN  [i \in 1..Len(at) |-> <<steps[at[i]].row, steps[at[i]].col>>]

NoRepeat(seq) == \A i, j \in 1..Len(seq) : seq[i] = seq[j] => i = j

\* C21: during an A* run no cell is expanded twice: each cell appears in at
\* most one current step, the open list never holds the same cell twice, and
\* once a cell is in the closed set its gScore, fScore and parent are never
\* changed again.
C21_NoCellExpandedTwice ==
  [][/\ NoRepeat(CurrentCells(k_steps'))
     /\ NoRepeat(k_openSet')
     /\ \A c \in k_closedSet' : ~Includes(k_openSet', c)
     /\ \A c \in k_closedSet :
          /\ c \in k_closedSet'
          /\ ValueAt(k_gScore', c) = ValueAt(k_gScore, c)
          /\ ValueAt(k_fScore', c) = ValueAt(k_fScore, c)
          /\ ValueAt(k_parent', c) = ValueAt(k_parent, c)]_vars

\* a finished run that expanded four cells or more, so that every later
\* expansion met closed neighbors, and that left cells on the open list
C21_Witness ==
  /\ k_pc = "done"
  /\ Cardinality(k_closedSet) >= 4
  /\ Len(PositionsOf(k_steps, "current")) = Cardinality(k_closedSet)
  /\ Len(k_openSet) > 0

\* the sum over the moves of a path of the rows and columns each one crosses
RECURSIVE ManhattanLength(_)
ManhattanLength(path) ==
  IF Len(path) <= 1 THEN 0
  ELSE AbsDiff(path[1][1], path[2][1]) + AbsDiff(path[1][2], path[2][2])
         + ManhattanLength(Tail(path))

\* a path from the start cell to the end cell over distinct non-wall cells of
\* the grid, each next to the one before it in one of the eight directions
IsAStarPath(path) ==
  /\ Len(path) >= 1
  /\ path[1] = k_start
  /\ path[Len(path)] = k_end
  /\ \A i \in 1..Len(path) : path[i] \in GridCells(k_grid) \ k_grid.walls
  /\ \A i \in 1..(Len(path) - 1) :
       /\ path[i] # path[i + 1]
       /\ AbsDiff(path[i][1], path[i + 1][1]) <= 1
       /\ AbsDiff(path[i][2], path[i + 1][2]) <= 1
  /\ NoRepeat(path)

\* the run on the grid of five rows and five columns without walls
OnEmptyGrid ==
  /\ k_grid = [rows |-> 5, cols |-> 5, walls |-> {}]
  /\ k_start = <<0, 0>> /\ k_end = <<4, 4>> /\ k_heuristic = "manhattan"

PlayArrays == UNION {[1..k -> {1, 2}] : k \in 1..MaxLen}

AppMounted == a_lastAction # "none"

UpdMounted == u_lastAction # "none"

EngineLoaded == v_type # "none"

\* setSteps lines 289-292
setSteps(steps) ==
  /\ e_steps' = steps
  /\ e_currentStep' = 0
  /\ v_order' = NotApplied
  /\ v_last' = Last("setSteps", 0, "none")
  /\ UNCHANGED <<v_type, v_input, scene, v_calls, OutsideViz>>

\* the logs handed to setSteps: none, or the log of an algorithm on the
\* adapter's input
StepLogs == {<<>>} \cup {executeAlgorithm(algorithmId, v_input) :
                           algorithmId \in SortingAlgorithms}

InitPlayback ==
  \/ /\ a_selectedAlgorithm = "bubble_sort"
     /\ a_inputArray \in PlayArrays
     /\ a_steps = generateSteps(a_selectedAlgorithm, a_inputArray)
     /\ a_currentStep = 0
     /\ a_isPlaying = FALSE
     /\ a_interval = FALSE
     /\ a_lastAction = "mount"
     /\ SearchIdle /\ UpdIdle /\ VizIdle /\ ExtIdle
  \/ /\ u_selectedAlgorithm = "bubble_sort"
     /\ u_input \in PlayArrays \cup {<<>>}
     /\ u_steps = executeAlgorithm(u_selectedAlgorithm, u_input)
     /\ u_currentStep = 0
     /\ u_totalSteps = 0
     /\ u_isPlaying = FALSE
     /\ u_animationInterval = Null
     /\ u_timers = {}
     /\ u_lastAction = "mount"
     /\ SearchIdle /\ AppIdle /\ VizIdle /\ ExtIdle
  \/ /\ SearchIdle /\ AppIdle /\ UpdIdle /\ ExtIdle
     /\ v_calls = 0
     /\ v_last = Last("load", 0, "none")
     /\ \E algorithmId \in SortingAlgorithms, data \in PlayArrays :
          loadArray(algorithmId, data)

NextPlayback ==
  \/ AppMounted /\ togglePlayPause
  \/ AppMounted /\ reset
  \/ AppMounted /\ stepForward
  \/ AppMounted /\ stepBackward
  \/ AppMounted /\ autoPlayTick
  \/ AppMounted /\ \E parsed \in PlayArrays : handleInputChange(parsed)
  \/ AppMounted /\ \E algorithm \in SortingAlgorithms : selectAlgorithm(algorithm)
  \/ UpdMounted /\ handlePlay
  \/ UpdMounted /\ \E t \in u_timers : playTick(t)
  \/ UpdMounted /\ handleReset
  \/ UpdMounted /\ \E parsed \in PlayArrays \cup {<<>>} : setArrayInput(parsed)
  \/ UpdMounted /\ \E algorithmId \in SortingAlgorithms : setSelectedAlgorithm(algorithmId)
  \/ EngineLoaded /\ \E steps \in StepLogs : setSteps(steps)
  \/ EngineLoaded /\ \E stepIndex \in GoToArgs : goToStep(stepIndex)
  \/ EngineLoaded /\ nextStep
  \/ EngineLoaded /\ previousStep

SpecPlayback == InitPlayback /\ [][NextPlayback]_vars

\* the last thing that happened is the user pausing or resetting
AppPausedOrReset ==
  \/ a_lastAction = "reset"
  \/ a_lastAction = "togglePlayPause" /\ ~a_isPlaying

UpdPausedOrReset ==
  \/ u_lastAction = "handleReset"
  \/ u_lastAction = "handlePlay" /\ ~u_isPlaying

CursorInLog(currentStep, steps) ==
  /\ currentStep \in 0..Len(steps)
  /\ Len(steps) > 0 => currentStep < Len(steps)

C25_CursorMovesByOne ==
  [][/\ a_lastAction' \in {"autoPlayTick", "stepForward"} =>
          a_currentStep' = a_currentStep + 1
     /\ a_lastAction' = "stepBackward" => a_currentStep' = a_currentStep - 1
     /\ a_lastAction' = "togglePlayPause" => a_currentStep' = a_currentStep
     /\ v_last'.op = "nextStep" =>
          e_currentStep' = IF e_currentStep < Len(e_steps) - 1
                           THEN e_currentStep + 1 ELSE e_currentStep
     /\ v_last'.op = "previousStep" =>
          e_currentStep' = IF e_currentStep > 0
                           THEN e_currentStep - 1 ELSE e_currentStep]_vars

\* a user step back taken while auto-play is running, two steps or more into
\* the log
C25_Witness ==
  /\ a_lastAction = "stepBackward"
  /\ a_isPlaying /\ a_interval
  /\ a_currentStep >= 1

(***************************************************************************)
(* Resizing.  Positions and sizes are kept exactly, in 1/unit of a pixel   *)
(* (a bar's width is a fraction with the number of bars below the line).   *)
(***************************************************************************)
\* the sizes the canvas takes on screen (getBoundingClientRect)
CanvasSizes == {<<800, 400>>, <<250, 200>>}

Min2(x, y) == IF x <= y THEN x ELSE y

Max2(x, y) == IF x >= y THEN x ELSE y

\* ArrayVisualization.calculateBarWidth and setupLayout (part_001 lines
\* 64-92) for n bars, with the options of lines 10-19
ArrayLayout(n, width, height) ==
  LET availableWidth == width - (20 * 2)
      totalSpacing == (n - 1) * 5
      barWidth == Max2(20 * n, Min2(80 * n, availableWidth - totalSpacing))  \* n times
      totalWidth == n * barWidth + (n - 1) * 5 * n                           \* n times
      startX == width * n - totalWidth                                       \* 2n times
      baseY == height - 20 - 40
  IN  [kind |-> "bars", unit |-> 2 * n,
       xs |-> [i \in 1..n |-> startX + 2 * (i - 1) * (barWidth + 5 * n)],
       ys |-> <<2 * n * baseY>>,
       size |-> 2 * barWidth]

\* GridVisualization.calculateDimensions and the cell positions (lines 64-70,
\* 418-434), cellSize 20
GridLayout(width, height) ==
  LET startX == width - GridCols * 20          \* twice
      startY == height - GridRows * 20 + 60    \* twice
  IN  [kind |-> "cells", unit |-> 2,
       xs |-> [c \in 1..GridCols |-> startX + 2 * (c - 1) * 20],
       ys |-> [r \in 1..GridRows |-> startY + 2 * (r - 1) * 20],
       size |-> 2 * 20]

\* TreeVisualization.positionNodes (README.md lines 218-232): the centre line
\* and the first level, from which every node is placed by its level and its
\* index in it; nodeRadius 25, padding 40
TreeLayout(width, height) ==
  [kind |-> "levels", unit |-> 2, xs |-> <<width>>, ys |-> <<2 * (40 + 25)>>,
   size |-> 2 * 50]

\* GraphVisualization.forceLayout (lines 401-471): the box every node centre
\* is kept in (the centres start at Math.random places); padding 50,
\* nodeRadius 20
GraphLayout(width, height) ==
  [kind |-> "within", unit |-> 1, xs |-> <<50, width - 50>>,
   ys |-> <<50, height - 50>>, size |-> 40]

\* the elements the adapter lays out
ElementCount ==
  CASE v_type = "array" -> Len(v_array.values)
    [] v_type = "graph" -> Cardinality(v_graph.nodes)
    [] v_type = "tree" -> Len(v_tree.values)
    [] OTHER -> GridRows * GridCols

\* the adapter's setupLayout (resize of the grid adapter): nothing is placed
\* when there is no element
Layout(type, count, old, width, height) ==
  CASE type = "grid" -> GridLayout(width, height)
    [] type = "array" /\ count > 0 -> ArrayLayout(count, width, height)
    [] type = "tree" /\ count > 0 -> TreeLayout(width, height)
    [] type = "graph" /\ count > 0 -> GraphLayout(width, height)
    [] OTHER -> old

\* handleResize with an array adapter whose resize builds its bars anew
resizeRebuilding(width, height) ==
  /\ v_type # "none"
  /\ g_width' = width
  /\ g_height' = height
  /\ g_layout' = Layout(v_type, ElementCount, g_layout, width, height)
  /\ v_array' = IF v_type = "array" THEN ArraySetData(v_array.data) ELSE v_array
  /\ v_last' = Last("resize", 0, "none")
  /\ UNCHANGED <<v_type, v_input, e_steps, e_currentStep, v_graph, v_tree, v_grid,
                 v_order, v_calls>>
  /\ UNCHANGED OutsideResize

\* handleResize (ModularAlgorithmVisualizer.jsx lines 160-174):
\* engine.resize(width, height) (BaseElement.js lines 428-434), then the
\* adapter's resize
resize(width, height) ==
  /\ v_type # "none"
  /\ g_width' = width
  /\ g_height' = height
  /\ g_layout' = Layout(v_type, ElementCount, g_layout, width, height)
  /\ v_last' = Last("resize", 0, "none")
  /\ UNCHANGED <<v_type, v_input, e_steps, e_currentStep, scene, v_order, v_calls>>
  /\ UNCHANGED OutsideResize

\* the engine on a canvas of some size, an adapter installed, loaded and laid
\* out
InitResize ==
  /\ SearchIdle /\ AppIdle /\ UpdIdle /\ TravIdle /\ RegIdle /\ SortIdle /\ AStarIdle
  /\ LateIdle
  /\ v_calls = 0
  /\ v_last = Last("load", 0, "none")
  /\ \/ \E algorithmId \in SortingAlgorithms, data \in PlayArrays :
          loadArray(algorithmId, data)
     \/ \E graphData \in GraphInputs : loadGraph(graphData)
     \/ \E treeValues \in TreeInputs : loadTree(treeValues)
     \/ \E start, end \in Cells \cup {NoCell} : loadGrid(start, end)
  /\ \E size \in CanvasSizes :
       /\ g_width = size[1]
       /\ g_height = size[2]
       /\ g_layout = Layout(v_type, ElementCount, NoLayout, size[1], size[2])

\* playback of an array log, a step handed to one of the other adapters, and
\* resizes in between
NextResize ==
  \/ v_type = "array" /\ \E stepIndex \in GoToArgs : goToStep(stepIndex)
  \/ v_type = "array" /\ nextStep
  \/ v_type = "array" /\ previousStep
  \/ v_type # "array" /\ v_calls = 0 /\ \E step \in ProbeSteps : executeStepCall(step)
  \/ \E size \in CanvasSizes : resize(size[1], size[2])

SpecResize == InitResize /\ [][NextResize]_vars

\* C26: resizing at any point of playback (engine.resize followed by the
\* active adapter's resize) leaves the engine's currentStep, the step log and
\* every element's state unchanged; only positions and sizes change.
C26_ResizeKeepsPlaybackState ==
  [][v_last'.op = "resize" =>
       /\ e_currentStep' = e_currentStep
       /\ e_steps' = e_steps
       /\ scene' = scene
       /\ v_type' = v_type /\ v_input' = v_input]_vars

\* a resize to another size in the middle of an array log, some bar marked
C26_Witness ==
  /\ v_last.op = "resize"
  /\ v_type = "array"
  /\ e_currentStep > 0
  /\ e_currentStep < Len(e_steps) - 1
  /\ \E i \in 1..Len(v_array.states) : v_array.states[i] # "default"
  /\ g_width = 250
  /\ g_layout.size < 2 * 80 * Len(v_array.values)

(***************************************************************************)
(* The grid adapter as init leaves it, its setWall, setStart and setEnd    *)
(* called with cells and with places outside the grid.                     *)
(***************************************************************************)
InitGrid ==
  /\ SearchIdle /\ AppIdle /\ UpdIdle /\ ExtIdle
  /\ v_calls = 0
  /\ v_last = Last("load", 0, "none")
  /\ loadGrid(NoCell, NoCell)

\* one call of GridVisualization.setWall, setStart or setEnd
gridCall(method, row, col) ==
  /\ v_type = "grid"
  /\ v_grid' = CASE method = "setWall" -> setWall(v_grid, row, col)
                  [] method = "setStart" -> setStart(v_grid, row, col)
                  [] method = "setEnd" -> setEnd(v_grid, row, col)
  /\ v_last' = Last(method, 0, IF getCell(row, col) = NoCell THEN "missing" ELSE "hit")
  /\ UNCHANGED <<v_type, v_input, e_steps, e_currentStep, v_array, v_graph, v_tree,
                 v_order, v_calls, OutsideViz>>

NextGrid ==
  \/ \E c \in GridTargets : gridCall("setWall", c[1], c[2])
  \/ \E c \in GridTargets : gridCall("setStart", c[1], c[2])
  \/ \E c \in GridTargets : gridCall("setEnd", c[1], c[2])

SpecGrid == InitGrid /\ [][NextGrid]_vars

\* the cells of a grid whose type is t
CellsOfType(gr, t) == {c \in Cells : gr.cells[c].type = t}

\* C27: after any sequence of GridVisualization.setStart, setEnd and setWall
\* calls (including calls with out-of-range coordinates and calls that target
\* the current start or end cell), startCell is either null or the only cell
\* whose type is start, and endCell is either null or the only cell whose type
\* is end.
C27_StartAndEndCellsAreUnique ==
  v_type = "grid" =>
    /\ v_grid.startCell = NoCell \/ CellsOfType(v_grid, "start") = {v_grid.startCell}
    /\ v_grid.endCell = NoCell \/ CellsOfType(v_grid, "end") = {v_grid.endCell}

\* the nodes of the current steps of a search log, in order
CurrentNodes(steps) ==
  LET at == PositionsOf(steps, "current")
  IN  [i \in 1..Len(at) |-> steps[at[i]].nodeId]

\* a path from startNode to endNode along edges of the input, no node twice
IsDFSPath(path) ==
  /\ Len(path) >= 1
  /\ path[1] = s_start
  /\ path[Len(path)] = s_end
  /\ NoRepeat(path)
  /\ \A i \in 1..(Len(path) - 1) : Joined(s_edges, path[i], path[i + 1])

\* C28: in every DFS run each node appears in at most one current step and is
\* pushed on the stack at most once (the stack never holds a node twice, nor a
\* node that was popped before), and when highlight_path is emitted its path
\* starts at startNode, ends at endNode, repeats no node, and every
\* consecutive pair is joined by an edge of the input graph.
C28_DFSVisitsOnceAndPathFollowsEdges ==
  s_algo = "dfs" =>
    /\ NoRepeat(CurrentNodes(s_steps))
    /\ NoRepeat(s_frontier)
    /\ \A i \in 1..Len(s_frontier) : ~Includes(CurrentNodes(s_steps), s_frontier[i])
    /\ \A i \in 1..Len(s_steps) :
         s_steps[i].type = "highlight_path" => IsDFSPath(s_steps[i].path)

\* a finished run over three nodes or more whose path has two edges or more,
\* in a graph where a node already keyed in parent was met again
C28_Witness ==
  /\ s_algo = "dfs" /\ s_pc = "done"
  /\ Len(CurrentNodes(s_steps)) >= 3
  /\ \E i \in 1..Len(s_steps) :
       s_steps[i].type = "highlight_path" /\ Len(s_steps[i].path) >= 3
  /\ Len(s_edges) >= 3

(***************************************************************************)
(* The algorithm catalogue: AlgorithmRegistry (BFSAlgorithm.js).           *)
(* A registry value is [algorithms, categories]: algorithms maps an id to  *)
(* the category field of the algorithm stored under it, categories maps a  *)
(* category name to the list of ids of the entries pushed to it.           *)
(***************************************************************************)

\* number of register calls made after construction
MaxRegs == 3

\* the category field of an algorithm that has none
NoCategory == ""

\* the algorithms registered by initializeBuiltInAlgorithms, in order
BuiltIn ==
  << [id |-> "bfs", category |-> "Graph Algorithms"],
     [id |-> "dfs", category |-> "Graph Algorithms"],
     [id |-> "astar", category |-> "Pathfinding Algorithms"],
     [id |-> "inorder", category |-> "Tree Algorithms"],
     [id |-> "preorder", category |-> "Tree Algorithms"],
     [id |-> "postorder", category |-> "Tree Algorithms"],
     [id |-> "levelorder", category |-> "Tree Algorithms"] >>

\* the algorithms stored by registerLegacySortingAlgorithms, in order
LegacySorting ==
  << [id |-> "bubble_sort", category |-> "Sorting Algorithms"],
     [id |-> "selection_sort", category |-> "Sorting Algorithms"] >>

\* algorithm.category || 'Uncategorized'
CategoryOf(category) == IF category = NoCategory THEN "Uncategorized" ELSE category

\* register(id, algorithm)
register(reg, id, category) ==
  LET name == CategoryOf(category)
      lists == IF name \in DOMAIN reg.categories
               THEN reg.categories
               ELSE MapSet(reg.categories, name, <<>>)
  IN  [algorithms |-> MapSet(reg.algorithms, id, category),
       categories |-> [lists EXCEPT ![name] = Append(@, id)]]

\* algorithms.findIndex(alg => alg.id === id), 0 when there is none
findIndex(algorithms, id) ==
  IF Includes(algorithms, id)
  THEN CHOOSE i \in 1..Len(algorithms) :
         algorithms[i] = id /\ \A j \in 1..(i - 1) : algorithms[j] # id
  ELSE 0

\* algorithms.splice(index, 1)
splice(algorithms, index) ==
  SubSeq(algorithms, 1, index - 1) \o SubSeq(algorithms, index + 1, Len(algorithms))

\* unregister(id)
unregister(reg, id) ==
  IF id \notin DOMAIN reg.algorithms
  THEN reg
  ELSE LET name == CategoryOf(reg.algorithms[id])
           index == findIndex(reg.categories[name], id)
       IN  [algorithms |-> removeElement(reg.algorithms, id),
            categories |->
              IF name \in DOMAIN reg.categories /\ index > 0
              THEN [reg.categories EXCEPT ![name] = splice(@, index)]
              ELSE reg.categories]

RECURSIVE RegisterAll(_, _, _)
\* the register calls of initializeBuiltInAlgorithms, from the i-th on
RegisterAll(reg, list, i) ==
  IF i > Len(list)
  THEN reg
  ELSE RegisterAll(register(reg, list[i].id, list[i].category), list, i + 1)

RECURSIVE SetAll(_, _, _)
\* the this.algorithms.set calls of registerLegacySortingAlgorithms
SetAll(reg, list, i) ==
  IF i > Len(list)
  THEN reg
  ELSE SetAll([reg EXCEPT !.algorithms = MapSet(@, list[i].id, list[i].category)],
              list, i + 1)

\* new AlgorithmRegistry()
NewRegistry ==
  SetAll(RegisterAll([algorithms |-> EmptyMap, categories |-> EmptyMap], BuiltIn, 1),
         LegacySorting, 1)

\* the ids and the category fields the calls are made with
CallIds == {"bfs", "bubble_sort", "custom"}
CallCategories == {"Graph Algorithms", "Sorting Algorithms", NoCategory}

OutsideCat == <<searchVars, appVars, updVars, vizVars, travVars, regVars, sortVars,
                astarVars, geomVars, elemVars>>

InitCat ==
  /\ SearchIdle /\ AppIdle /\ UpdIdle /\ VizIdle /\ TravIdle /\ RegIdle /\ SortIdle
  /\ AStarIdle /\ GeomIdle /\ ElemIdle
  /\ c_algorithms = NewRegistry.algorithms
  /\ c_categories = NewRegistry.categories
  /\ c_calls = 0
  /\ c_last = "constructor"

registerCall(id, category) ==
  /\ c_last # "none"
  /\ c_calls < MaxRegs
  /\ LET reg == register([algorithms |-> c_algorithms, categories |-> c_categories],
                         id, category)
     IN  /\ c_algorithms' = reg.algorithms
         /\ c_categories' = reg.categories
  /\ c_calls' = c_calls + 1
  /\ c_last' = "register"
  /\ UNCHANGED OutsideCat

unregisterCall(id) ==
  /\ c_last # "none"
  /\ LET reg == unregister([algorithms |-> c_algorithms, categories |-> c_categories], id)
     IN  /\ c_algorithms' = reg.algorithms
         /\ c_categories' = reg.categories
  /\ c_last' = "unregister"
  /\ UNCHANGED <<c_calls, OutsideCat>>

NextCat ==
  \/ \E id \in CallIds, category \in CallCategories : registerCall(id, category)
  \/ \E id \in CallIds : unregisterCall(id)

SpecCat == InitCat /\ [][NextCat]_vars

\* the ids of the entries of getAll()
AllIds == DOMAIN c_algorithms

\* the ids listed in the category lists of getCategoriesWithAlgorithms()
ListedIds == UNION {Range(c_categories[name]) : name \in DOMAIN c_categories}

\* the number of times id is listed across the category lists
TimesListed(id) ==
  Cardinality({e \in UNION {{<<name, i>> : i \in 1..Len(c_categories[name])} :
                            name \in DOMAIN c_categories} :
               c_categories[e[1]][e[2]] = id})

\* C29: in the constructed AlgorithmRegistry and after any sequence of
\* register and unregister calls, the ids returned by getAll() are the ids
\* listed across the category lists of getCategoriesWithAlgorithms(), and each
\* id is listed exactly once.
C29_CategoriesListEveryAlgorithmOnce ==
  c_last # "none" =>
    /\ AllIds = ListedIds
    /\ \A id \in ListedIds : TimesListed(id) = 1

(***************************************************************************)
(* One visual element: the state colours of NodeElement and ArrayElement,  *)
(* BaseElement.setState and BaseElement.highlight with its timeout.        *)
(* The durations of highlight are the caller's, so the pending timeouts    *)
(* may fire in any order.                                                  *)
(***************************************************************************)

\* number of setState and highlight calls on the element
MaxElemCalls == 3

\* this.stateColors of a NodeElement built without options.stateColors
NodeColorOf ==
  [default |-> "#6b7280", visited |-> "#10b981", visiting |-> "#fbbf24",
   current |-> "#ef4444", path |-> "#3b82f6", start |-> "#059669",
   end |-> "#dc2626", blocked |-> "#374151"]

\* this.stateColors of an ArrayElement built without options.stateColors
ArrayColorOf ==
  [default |-> "#e5e7eb", comparing |-> "#fbbf24", swapping |-> "#ef4444",
   completed |-> "#10b981", current |-> "#8b5cf6", minimum |-> "#3b82f6",
   visited |-> "#f59e0b"]

stateColors(kind) == IF kind = "node" THEN NodeColorOf ELSE ArrayColorOf

\* updateVisualState(): the fill colour it leaves
updateVisualState(kind, state, fillColor) ==
  IF state \in DOMAIN stateColors(kind) THEN stateColors(kind)[state] ELSE fillColor

\* the states the calls are made with; "selected" is a key of neither mapping
ElemStates == {"default", "visited", "current", "selected"}

\* the colours highlight is called with; the first is its default
HighlightColors == {"#fbbf24", "#ffffff"}

OutsideElem == <<searchVars, appVars, updVars, vizVars, travVars, regVars, sortVars,
                 astarVars, geomVars, catVars>>

\* new NodeElement(value, x, y) or new ArrayElement(value, index, x, y)
InitElem ==
  /\ SearchIdle /\ AppIdle /\ UpdIdle /\ VizIdle /\ TravIdle /\ RegIdle /\ SortIdle
  /\ AStarIdle /\ GeomIdle /\ CatIdle
  /\ h_kind \in {"node", "array"}
  /\ h_state = "default"
  /\ h_fillColor = updateVisualState(h_kind, "default", "#e5e7eb")
  /\ h_engine = FALSE
  /\ h_timers = {}
  /\ h_calls = 0
  /\ h_last = "constructor"

\* engine.addElement(element)
addElementCall ==
  /\ h_kind # "none"
  /\ ~h_engine
  /\ h_engine' = TRUE
  /\ h_last' = "addElement"
  /\ UNCHANGED <<h_kind, h_state, h_fillColor, h_timers, h_calls, OutsideElem>>

\* element.setState(state)
setState(state) ==
  /\ h_kind # "none"
  /\ h_calls < MaxElemCalls
  /\ h_state' = state
  /\ h_fillColor' = updateVisualState(h_kind, state, h_fillColor)
  /\ h_calls' = h_calls + 1
  /\ h_last' = "setState"
  /\ UNCHANGED <<h_kind, h_engine, h_timers, OutsideElem>>

\* element.highlight(color, duration)
highlight(color) ==
  /\ h_kind # "none"
  /\ h_calls < MaxElemCalls
  /\ h_fillColor' = color
  /\ h_timers' = IF h_engine
                 THEN h_timers \cup {[n |-> h_calls, originalColor |-> h_fillColor]}
                 ELSE h_timers
  /\ h_calls' = h_calls + 1
  /\ h_last' = "highlight"
  /\ UNCHANGED <<h_kind, h_state, h_engine, OutsideElem>>

\* the callback highlight gave to setTimeout
highlightTimeout(timer) ==
  /\ timer \in h_timers
  /\ h_fillColor' = timer.originalColor
  /\ h_timers' = h_timers \ {timer}
  /\ h_last' = "timeout"
  /\ UNCHANGED <<h_kind, h_state, h_engine, h_calls, OutsideElem>>

NextElem ==
  \/ addElementCall
  \/ \E state \in ElemStates : setState(state)
  \/ \E color \in HighlightColors : highlight(color)
  \/ \E timer \in h_timers : highlightTimeout(timer)

SpecElem == InitElem /\ [][NextElem]_vars

\* C30: for a NodeElement or ArrayElement, whenever no highlight timer is
\* pending and the element's state is a key of its state-to-colour mapping,
\* fillColor is the colour mapped to the current state, also when setState was
\* called while a highlight timer was pending.
C30_FillColorFollowsState ==
  (h_kind # "none" /\ h_timers = {} /\ h_state \in DOMAIN stateColors(h_kind)) =>
    h_fillColor = stateColors(h_kind)[h_state]

====
